---- MODULE Spec2Model ----
(***************************************************************************)
(* A model of the aiken code generator (crates/lang/src/uplc_two.rs):      *)
(* scope paths, AST -> IR lowering (build_ir), function hoisting           *)
(* (define_ir), IR -> UPLC synthesis (gen_uplc) and the program assembler  *)
(* (generate); and of the ordering of the parsed modules of a project      *)
(* (crates/aiken-project/src/module.rs) and of the project skeleton        *)
(* generator (crates/aiken/src/cmd/new.rs).                                *)
(***************************************************************************)
EXTENDS Integers, Sequences, FiniteSets, TLC

VARIABLES
    lca,        \* harness of the scope utility: three paths and the results
    functions,  \* CodeGenerator.functions: FunctionAccessKey -> Function
    gen,        \* CodeGenerator: id_gen, needs_field_access, defined_functions
                \* and the history of the DefineFunc nodes it inserted
    ir_stack,   \* the caller's Vec<IR> handed to build_ir / define_ir
    phase,      \* position of the caller of the code generator
    call,       \* inputs and results of the last operation
    twin,       \* a second CodeGenerator lowering the same expression
    synth,      \* harness of one gen_uplc reduction: node, arg_stack, result
    project,    \* ParsedModules and the result of its sequence
    disk        \* the disk create_project works on and what it returned

vars == <<lca, functions, gen, ir_stack, phase, call, twin, synth, project, disk>>

(***************************************************************************)
(* Bounds of the model.                                                    *)
(***************************************************************************)
MaxPathLen == 2
MaxScopeId == 2
NumFuncs == 2          \* functions in the table under compilation
MaxDefineDepth == NumFuncs + 2
MaxIdStart == 1        \* largest counter an id generator starts a lowering with
MaxNames == 3          \* names of a list pattern
MaxListLen == 4        \* elements of the list a pattern is matched against
MaxCalls == 2          \* generate calls on one code generator
MaxModules == 3        \* parsed modules of a project
MaxDeps == 2           \* dependencies of a parsed module
MaxRefuseAt == 6       \* operations on the disk before the system refuses one
MaxClauses == 3        \* clauses of a when
MaxHead == 3           \* largest clause head and subject of a when

(***************************************************************************)
(* Scope paths: sequences of ids; the empty sequence is the root.          *)
(***************************************************************************)
RECURSIVE PathsOfLen(_)
PathsOfLen(n) ==
    IF n = 0 THEN {<<>>}
    ELSE {Append(p, i) : p \in PathsOfLen(n - 1), i \in 1..MaxScopeId}

Paths == UNION {PathsOfLen(n) : n \in 0..MaxPathLen}

IsPrefix(p, q) == Len(p) <= Len(q) /\ SubSeq(q, 1, Len(p)) = p

\* The loop of get_common_ancestor with a different slice bound on a mismatch.
RECURSIVE CommonAncestorLoopOffByOne(_, _, _, _)
CommonAncestorLoopOffByOne(scope, scope_prev, index, longest_length) ==
    IF index >= longest_length THEN <<>>
    ELSE IF index + 1 > Len(scope) THEN scope
    ELSE IF index + 1 > Len(scope_prev) THEN scope_prev
    ELSE IF scope[index + 1] # scope_prev[index + 1] THEN SubSeq(scope, 1, index + 1)
    ELSE CommonAncestorLoopOffByOne(scope, scope_prev, index + 1, longest_length)

\* `for index in 0..longest_length` of get_common_ancestor (0-based index).
RECURSIVE CommonAncestorLoop(_, _, _, _)
CommonAncestorLoop(scope, scope_prev, index, longest_length) ==
    IF index >= longest_length THEN <<>>
    ELSE IF index + 1 > Len(scope) THEN scope
    ELSE IF index + 1 > Len(scope_prev) THEN scope_prev
    ELSE IF scope[index + 1] # scope_prev[index + 1] THEN SubSeq(scope, 1, index)
    ELSE CommonAncestorLoop(scope, scope_prev, index + 1, longest_length)

\* get_common_ancestor returning the first path whenever the two differ in length.
get_common_ancestor_first(scope, scope_prev) ==
    IF scope = scope_prev THEN scope
    ELSE IF Len(scope) # Len(scope_prev) /\ (IsPrefix(scope, scope_prev) \/ IsPrefix(scope_prev, scope))
         THEN scope
    ELSE CommonAncestorLoop(scope, scope_prev, 0,
             IF Len(scope) >= Len(scope_prev) THEN Len(scope) ELSE Len(scope_prev))

get_common_ancestor(scope, scope_prev) ==
    LET longest_length ==
            IF Len(scope) >= Len(scope_prev) THEN Len(scope) ELSE Len(scope_prev)
    IN  IF scope = scope_prev THEN scope
        ELSE CommonAncestorLoop(scope, scope_prev, 0, longest_length)

(***************************************************************************)
(* Data model.  Option<T> is a sequence of length 0 (None) or 1 (Some).    *)
(* A String holding a decimal number is the sequence of its digits.        *)
(***************************************************************************)
None == <<>>
Some(x) == <<x>>

RECURSIVE to_string(_)
to_string(n) == IF n < 10 THEN <<n>> ELSE Append(to_string(n \div 10), n % 10)

RECURSIVE parse(_)
parse(digits) ==
    IF Len(digits) = 1 THEN digits[1]
    ELSE 10 * parse(SubSeq(digits, 1, Len(digits) - 1)) + digits[Len(digits)]

\* tipo::Type, the App variant: a named type with its arguments.
TypeApp(name, args) == [tag |-> "App", module |-> "", name |-> name, args |-> args]
IntT == TypeApp("Int", <<>>)
ByteArrayT == TypeApp("ByteArray", <<>>)
StringT == TypeApp("String", <<>>)
BoolT == TypeApp("Bool", <<>>)
DataT == TypeApp("Data", <<>>)
ListT(elem) == TypeApp("List", <<elem>>)
FnT(ret) == [tag |-> "Fn", ret |-> ret]

is_int(tipo) == tipo.tag = "App" /\ tipo.name = "Int"
is_bytearray(tipo) == tipo.tag = "App" /\ tipo.name = "ByteArray"
is_string(tipo) == tipo.tag = "App" /\ tipo.name = "String"
is_bool(tipo) == tipo.tag = "App" /\ tipo.name = "Bool"
is_list(tipo) == tipo.tag = "App" /\ tipo.name = "List"

\* FunctionAccessKey; names are interned as numbers so that keys are ordered
\* the way the derived Ord orders them (module_name, then function_name).
FunctionAccessKey(module_name, function_name) ==
    [module_name |-> module_name, function_name |-> function_name]

\* Ordering::{Less, Equal, Greater} of a.cmp(b) as -1, 0, 1.
KeyCmp(a, b) ==
    IF a.module_name < b.module_name THEN -1
    ELSE IF a.module_name > b.module_name THEN 1
    ELSE IF a.function_name < b.function_name THEN -1
    ELSE IF a.function_name > b.function_name THEN 1
    ELSE 0

\* ValueConstructorVariant
LocalVariable == [tag |-> "LocalVariable"]
ModuleFn(module, name, builtin) ==
    [tag |-> "ModuleFn", module |-> module, fname |-> name, builtin |-> builtin]
RecordVariant(constr_name) == [tag |-> "Record", name |-> constr_name]
ModuleConstant == [tag |-> "ModuleConstant"]
ValueConstructor(tipo, variant) == [tipo |-> tipo, variant |-> variant]

\* TypedExpr
EInt(value) == [tag |-> "Int", value |-> value, tipo |-> IntT]
EString(value) == [tag |-> "String", text |-> value, tipo |-> StringT]
EByteArray(bytes) == [tag |-> "ByteArray", bytes |-> bytes, tipo |-> ByteArrayT]
ESequence(expressions) ==
    [tag |-> "Sequence", expressions |-> expressions,
     tipo |-> expressions[Len(expressions)].tipo]
EPipeline(expressions) ==
    [tag |-> "Pipeline", expressions |-> expressions,
     tipo |-> expressions[Len(expressions)].tipo]
EVar(name, constructor) ==
    [tag |-> "Var", name |-> name, constructor |-> constructor, tipo |-> constructor.tipo]
EList(elements, tail, tipo) ==
    [tag |-> "List", elements |-> elements, tail |-> tail, tipo |-> tipo]
ECall(fun, args, tipo) == [tag |-> "Call", fun |-> fun, args |-> args, tipo |-> tipo]
EBinOp(name, left, right, tipo) ==
    [tag |-> "BinOp", name |-> name, left |-> left, right |-> right, tipo |-> tipo]
EAssignment(pattern, value, kind) ==
    [tag |-> "Assignment", pattern |-> pattern, value |-> value, kind |-> kind,
     tipo |-> value.tipo]
EWhen(subjects, clauses, tipo) ==
    [tag |-> "When", subjects |-> subjects, clauses |-> clauses, tipo |-> tipo]
ERecordAccess(record, index, tipo) ==
    [tag |-> "RecordAccess", record |-> record, index |-> index, tipo |-> tipo]
EModuleSelect(module_name, constructor, tipo) ==
    [tag |-> "ModuleSelect", module_name |-> module_name, constructor |-> constructor,
     tipo |-> tipo]
EUnsupported(tag) == [tag |-> tag, tipo |-> DataT]
Clause(pattern, then) == [pattern |-> pattern, then |-> then]
CallArg(value) == [value |-> value]

\* Pattern
PInt(value) == [tag |-> "Int", value |-> value]
PVar(name) == [tag |-> "Var", name |-> name]
PDiscard == [tag |-> "Discard"]
PList(elements, tail) == [tag |-> "List", elements |-> elements, tail |-> tail]
PConstructor(is_record, name, arguments, field_map, tipo) ==
    [tag |-> "Constructor", is_record |-> is_record, name |-> name,
     arguments |-> arguments, constructor |-> [field_map |-> field_map], tipo |-> tipo]
PUnsupported(tag) == [tag |-> tag]
PatternArg(label, value) == [label |-> label, value |-> value]

\* IR nodes; every node carries its scope.
IRInt(scope, value) == [tag |-> "Int", scope |-> scope, value |-> value]
IRString(scope, value) == [tag |-> "String", scope |-> scope, text |-> value]
IRByteArray(scope, bytes) == [tag |-> "ByteArray", scope |-> scope, bytes |-> bytes]
IRVar(scope, constructor, name) ==
    [tag |-> "Var", scope |-> scope, constructor |-> constructor, name |-> name]
IRList(scope, count, tipo, tail) ==
    [tag |-> "List", scope |-> scope, count |-> count, tipo |-> tipo, tail |-> tail]
IRTail(scope, count) == [tag |-> "Tail", scope |-> scope, count |-> count]
IRListAccessor(scope, names, tail) ==
    [tag |-> "ListAccessor", scope |-> scope, names |-> names, tail |-> tail]
IRCall(scope, count) == [tag |-> "Call", scope |-> scope, count |-> count]
IRBuiltin(scope, func) == [tag |-> "Builtin", scope |-> scope, func |-> func]
IRBinOp(scope, name, count, tipo) ==
    [tag |-> "BinOp", scope |-> scope, name |-> name, count |-> count, tipo |-> tipo]
IRAssignment(scope, name, kind) ==
    [tag |-> "Assignment", scope |-> scope, name |-> name, kind |-> kind]
IRDefineFunc(scope, func_name, module_name, params, recursive) ==
    [tag |-> "DefineFunc", scope |-> scope, func_name |-> func_name,
     module_name |-> module_name, params |-> params, recursive |-> recursive]
IRLam(scope, name) == [tag |-> "Lam", scope |-> scope, name |-> name]
IRWhen(scope, count, subject_name, tipo) ==
    [tag |-> "When", scope |-> scope, count |-> count,
     subject_name |-> subject_name, tipo |-> tipo]
IRClause(scope, count, tipo, subject_name) ==
    [tag |-> "Clause", scope |-> scope, count |-> count, tipo |-> tipo,
     subject_name |-> subject_name]
IRFinally(scope) == [tag |-> "Finally", scope |-> scope]
IRDiscard(scope) == [tag |-> "Discard", scope |-> scope]
IRRecordAccess(scope, index, tipo) ==
    [tag |-> "RecordAccess", scope |-> scope, index |-> index, tipo |-> tipo]
IRFieldsExpose(scope, count, indices) ==
    [tag |-> "FieldsExpose", scope |-> scope, count |-> count, indices |-> indices]

\* The sequence of variant tags of an IR sequence.
Tags(ir) == [i \in 1..Len(ir) |-> ir[i].tag]

(***************************************************************************)
(* The CodeGenerator and its tables.                                       *)
(***************************************************************************)
\* CodeGenerator::new
NewCodeGenerator ==
    [defined_functions |-> {}, id_gen |-> 0, needs_field_access |-> FALSE,
     define_func_log |-> <<>>]

\* IdGenerator::next: hands out the counter and advances it.
IdNext(self) == self.id_gen
IdAdvance(self) == [self EXCEPT !.id_gen = @ + 1]

\* data_types: one data type with three constructors; the third carries
\* four labelled fields of the four unwrapper classes.
DatumFieldTypes == <<IntT, ByteArrayT, ListT(IntT), DataT>>
DatumFieldLabels == <<"fa", "fb", "fc", "fd">>
DatumType ==
    [constructors |->
        << [name |-> "Nothing", arguments |-> <<>>],
           [name |-> "Unit", arguments |-> <<>>],
           [name |-> "Datum",
            arguments |-> [i \in 1..4 |->
                [label |-> Some(DatumFieldLabels[i]), tipo |-> DatumFieldTypes[i]]]] >>]
DatumT == TypeApp("Datum", <<>>)
\* the data type of Bool: False has the constructor index 0, True the index 1
BoolType ==
    [constructors |->
        << [name |-> "False", arguments |-> <<>>],
           [name |-> "True", arguments |-> <<>>] >>]
data_types == [k \in {"Datum", "Bool"} |-> IF k = "Datum" THEN DatumType ELSE BoolType]

(***************************************************************************)
(* AST -> IR lowering.  An operation returns the code generator, the       *)
(* vectors it wrote and `panic`: "" or the reason the process aborted.     *)
(***************************************************************************)
\* `let v = ...;` followed by the code F that reads it: v is computed once
Let(v, F(_)) == F(v)

Done(self, stack) == [self |-> self, ir_stack |-> stack, panic |-> ""]
Abort(self, stack, why) == [self |-> self, ir_stack |-> stack, panic |-> why]
PDone(self, pattern_vec, values, needs_constr_var) ==
    [self |-> self, pattern_vec |-> pattern_vec, values |-> values,
     needs_constr_var |-> needs_constr_var, panic |-> ""]
PAbort(self, why) ==
    [self |-> self, pattern_vec |-> <<>>, values |-> <<>>,
     needs_constr_var |-> FALSE, panic |-> why]

\* sorted_by(|item1, item2| item1.2.cmp(&item2.2)): a stable sort on the index.
RECURSIVE InsertByIndex(_, _)
InsertByIndex(sorted, item) ==
    IF sorted = <<>> THEN <<item>>
    ELSE IF sorted[Len(sorted)].index <= item.index THEN Append(sorted, item)
    ELSE Append(InsertByIndex(SubSeq(sorted, 1, Len(sorted) - 1), item),
                sorted[Len(sorted)])

RECURSIVE SortedByIndex(_)
SortedByIndex(items) ==
    IF items = <<>> THEN <<>>
    ELSE InsertByIndex(SortedByIndex(SubSeq(items, 1, Len(items) - 1)), items[Len(items)])

\* position (0-based) of the constructor named constr_name, or -1
ConstructorIndex(data_type, constr_name) ==
    LET hits == {i \in 1..Len(data_type.constructors) :
                    data_type.constructors[i].name = constr_name}
    IN  IF hits = {} THEN -1
        ELSE (CHOOSE i \in hits : \A j \in hits : i <= j) - 1

RECURSIVE build_ir(_, _, _, _)
RECURSIVE build_ir_each(_, _, _)
RECURSIVE pattern_ir(_, _, _, _, _)
RECURSIVE pattern_list_elements(_, _, _)
RECURSIVE when_clauses(_, _, _, _, _)
RECURSIVE when_ir(_, _, _, _, _, _, _, _)

\* `for expr in expressions`: each expression under scope ++ [id_gen.next()]
build_ir_each(r, expressions, scope) ==
    IF r.panic # "" \/ expressions = <<>> THEN r
    ELSE LET child == Append(scope, IdNext(r.self))
         IN  build_ir_each(
                 build_ir(IdAdvance(r.self), Head(expressions), r.ir_stack, child),
                 Tail(expressions), scope)

\* Pattern::List, the loop over the elements; st = [self, elements_vec, names, panic]
pattern_list_elements(st, elements, scope) ==
    IF st.panic # "" \/ elements = <<>> THEN st
    ELSE LET element == Head(elements) IN
         IF element.tag = "Var"
         THEN pattern_list_elements(
                  [st EXCEPT !.names = Append(@, element.name)], Tail(elements), scope)
         ELSE IF element.tag = "List"
         THEN LET item_name == "list_item_id_" \o ToString(IdNext(st.self))
                  var_vec == << IRVar(scope,
                                      ValueConstructor(TypeApp("", <<>>), LocalVariable),
                                      item_name) >>
              IN  Let(pattern_ir(IdAdvance(st.self), element, st.elements_vec,
                                 var_vec, scope),
                      LAMBDA r :
                          pattern_list_elements(
                              [self |-> r.self, elements_vec |-> r.pattern_vec,
                               names |-> Append(st.names, item_name),
                               panic |-> r.panic],
                              Tail(elements), scope))
         ELSE [st EXCEPT !.panic = "todo"]

\* Pattern::Constructor of pattern_ir
pattern_constructor(self, pattern, pattern_vec, values, scope) ==
    LET tipo == pattern.tipo
        key_ok == \/ tipo.tag = "App"
                  \/ (tipo.tag = "Fn" /\ tipo.ret.tag = "App")
        data_type_key == IF tipo.tag = "Fn" THEN tipo.ret.name ELSE tipo.name
    IN
    IF ~key_ok THEN PAbort(self, "unreachable")
    ELSE IF data_type_key \notin DOMAIN data_types THEN PAbort(self, "unwrap")
    ELSE
    LET data_type == data_types[data_type_key]
        index == ConstructorIndex(data_type, pattern.name)
    IN
    IF index < 0 THEN PAbort(self, "unwrap")
    ELSE
    LET constructor_type == data_type.constructors[index + 1]
        with_index == Append(pattern_vec, IRInt(scope, to_string(index)))
        arguments == pattern.arguments
        unsupported == \E i \in 1..Len(arguments) :
                           arguments[i].value.tag \notin {"Var", "Discard"}
        var_name(item) == IF item.value.tag = "Var" THEN item.value.name ELSE ""
    IN
    IF pattern.is_record
    THEN
        IF pattern.constructor.field_map = None THEN PAbort(self, "unwrap")
        ELSE IF \E i \in 1..Len(constructor_type.arguments) :
                    constructor_type.arguments[i].label = None
        THEN PAbort(self, "unwrap")
        ELSE
        LET field_map == pattern.constructor.field_map[1]
            labels == {constructor_type.arguments[i].label[1] :
                          i \in 1..Len(constructor_type.arguments)}
            type_of(label) ==
                constructor_type.arguments[
                    CHOOSE i \in 1..Len(constructor_type.arguments) :
                        /\ constructor_type.arguments[i].label[1] = label
                        /\ \A j \in 1..Len(constructor_type.arguments) :
                              constructor_type.arguments[j].label[1] = label => j <= i
                ].tipo
            mapped == [i \in 1..Len(arguments) |->
                          LET label == IF arguments[i].label = None THEN ""
                                       ELSE arguments[i].label[1]
                          IN  [label |-> label,
                               var_name |-> var_name(arguments[i]),
                               index |-> IF label \in DOMAIN field_map.fields
                                         THEN field_map.fields[label] ELSE 0,
                               discard |-> arguments[i].value.tag = "Discard"]]
            kept(item) == ~item.discard
            arguments_index == SortedByIndex(SelectSeq(mapped, kept))
        IN
        IF unsupported THEN PAbort(self, "todo")
        ELSE IF arguments_index = <<>>
        THEN PDone(self, with_index \o values, <<>>, FALSE)
        ELSE IF \E i \in 1..Len(arguments_index) : arguments_index[i].label \notin labels
        THEN PAbort(self, "unwrap")
        ELSE PDone(self,
                   Append(with_index,
                          IRFieldsExpose(scope, Len(arguments_index) + 2,
                              [i \in 1..Len(arguments_index) |->
                                  [index |-> arguments_index[i].index,
                                   name |-> arguments_index[i].var_name,
                                   tipo |-> type_of(arguments_index[i].label)]]))
                       \o values,
                   <<>>, FALSE)
    ELSE
        LET mapped == [i \in 1..Len(arguments) |->
                          [var_name |-> var_name(arguments[i]),
                           index |-> i - 1,
                           discard |-> arguments[i].value.tag = "Discard"]]
            kept(item) == ~item.discard
            arguments_index == SelectSeq(mapped, kept)
        IN
        IF unsupported THEN PAbort(self, "todo")
        ELSE IF arguments_index = <<>>
        THEN PDone(self, with_index \o values, <<>>, FALSE)
        ELSE IF \E i \in 1..Len(arguments_index) :
                    arguments_index[i].index + 1 > Len(constructor_type.arguments)
        THEN PAbort(self, "unwrap")
        ELSE PDone(self,
                   Append(with_index,
                          IRFieldsExpose(scope, Len(arguments_index) + 2,
                              [i \in 1..Len(arguments_index) |->
                                  [index |-> arguments_index[i].index,
                                   name |-> arguments_index[i].var_name,
                                   tipo |-> constructor_type.arguments[
                                                arguments_index[i].index + 1].tipo]]))
                       \o values,
                   <<>>, FALSE)

\* pattern_vec.append(values) leaves `values` empty: the result's values is <<>>.
pattern_ir(self, pattern, pattern_vec, values, scope) ==
    IF pattern.tag = "Discard"
    THEN PDone(self, Append(pattern_vec, IRDiscard(scope)) \o values, <<>>, FALSE)
    ELSE IF pattern.tag = "List"
    THEN Let(pattern_list_elements(
                 [self |-> self, elements_vec |-> <<>>, names |-> <<>>, panic |-> ""],
                 pattern.elements, scope),
             LAMBDA st :
                 LET tail == pattern.tail IN
                 IF st.panic # "" THEN PAbort(st.self, st.panic)
                 ELSE IF tail # None /\ tail[1].tag \notin {"Var", "Discard"}
                 THEN PAbort(st.self, "unreachable")
                 ELSE PDone(st.self,
                            Append(pattern_vec,
                                   IRListAccessor(scope,
                                       IF tail # None /\ tail[1].tag = "Var"
                                       THEN Append(st.names, tail[1].name)
                                       ELSE st.names,
                                       tail # None))
                                \o values \o st.elements_vec,
                            <<>>, FALSE))
    ELSE IF pattern.tag = "Constructor"
    THEN pattern_constructor(self, pattern, pattern_vec, values, scope)
    ELSE PAbort(self, "todo")

assignment_ir(self, pattern, pattern_vec, value_vec, kind, scope) ==
    IF pattern.tag = "Var"
    THEN PDone(self, Append(pattern_vec, IRAssignment(scope, pattern.name, kind))
                         \o value_vec, <<>>, FALSE)
    ELSE IF pattern.tag = "List"
    THEN pattern_ir(self, pattern, pattern_vec, value_vec, scope)
    ELSE PAbort(self, "todo")

\* the result's needs_constr_var is the flag after the call
when_ir(self, pattern, pattern_vec, values, tipo, constr_var, needs_constr_var, scope) ==
    IF pattern.tag = "Int"
    THEN PDone(self, Append(pattern_vec, IRInt(scope, pattern.value)) \o values,
               <<>>, needs_constr_var)
    ELSE IF pattern.tag = "Discard" THEN PAbort(self, "unreachable")
    ELSE IF pattern.tag = "Constructor"
    THEN LET needs_access_to_constr_var ==
                 \E i \in 1..Len(pattern.arguments) :
                     pattern.arguments[i].value.tag \in {"Var", "List", "Constructor"}
             new_vec == << IRVar(scope, ValueConstructor(tipo, LocalVariable),
                                 constr_var) >>
         IN  [pattern_ir(self, pattern, pattern_vec,
                         IF needs_access_to_constr_var THEN new_vec \o values
                         ELSE values,
                         scope)
                 EXCEPT !.needs_constr_var =
                            needs_constr_var \/ needs_access_to_constr_var]
    ELSE PAbort(self, "todo")

\* TypedExpr::When, `for clause in clauses` (all clauses but the last);
\* st = [self, pattern_vec, values (clauses_vec), needs_constr_var, panic]
when_clauses(st, clauses, subject, names, scope) ==
    IF st.panic # "" \/ clauses = <<>> THEN st
    ELSE LET clause == Head(clauses)
             clause_scope == Append(scope, IdNext(st.self))
             with_clause == Append(st.pattern_vec,
                                   IRClause(clause_scope, 2, subject.tipo,
                                            names.subject_name))
         IN  Let(build_ir(IdAdvance(st.self), clause.then, st.values, clause_scope),
                 LAMBDA body :
                     IF body.panic # "" THEN PAbort(body.self, body.panic)
                     ELSE when_clauses(
                              when_ir(body.self, clause.pattern[1], with_clause,
                                      body.ir_stack, subject.tipo, names.constr_var,
                                      st.needs_constr_var, clause_scope),
                              Tail(clauses), subject, names, scope))

\* TypedExpr::List
build_list(self, body, stack, scope) ==
    LET count == IF body.tail # None THEN Len(body.elements) + 1
                 ELSE Len(body.elements)
    IN  Let(build_ir_each(
                Done(self, Append(stack, IRList(scope, count, body.tipo,
                                                body.tail # None))),
                body.elements, scope),
            LAMBDA r :
                IF r.panic # "" \/ body.tail = None THEN r
                ELSE LET tail_scope == Append(scope, IdNext(r.self))
                     IN  build_ir(IdAdvance(r.self), body.tail[1],
                                  Append(r.ir_stack, IRTail(tail_scope, 1)),
                                  tail_scope))

\* TypedExpr::Call with the application node left out for a call at the root.
build_call_bare_at_root(self, body, stack, scope) ==
    LET scope_fun == Append(scope, IdNext(self))
        fun == build_ir(IdAdvance(self), body.fun,
                        IF scope = <<>> THEN stack
                        ELSE Append(stack, IRCall(scope, Len(body.args) + 1)),
                        scope_fun)
    IN  build_ir_each(fun, [i \in 1..Len(body.args) |-> body.args[i].value], scope)

\* TypedExpr::Call
build_call(self, body, stack, scope) ==
    LET scope_fun == Append(scope, IdNext(self))
        fun == build_ir(IdAdvance(self), body.fun,
                        Append(stack, IRCall(scope, Len(body.args) + 1)), scope_fun)
    IN  build_ir_each(fun, [i \in 1..Len(body.args) |-> body.args[i].value], scope)

\* TypedExpr::BinOp: both child ids are drawn before either operand is lowered
build_binop(self, body, stack, scope) ==
    LET scope_left == Append(scope, IdNext(self))
        scope_right == Append(scope, IdNext(IdAdvance(self)))
    IN  Let(build_ir(IdAdvance(IdAdvance(self)), body.left,
                     Append(stack, IRBinOp(scope, body.name, 2, body.left.tipo)),
                     scope_left),
            LAMBDA left :
                IF left.panic # "" THEN left
                ELSE build_ir(left.self, body.right, left.ir_stack, scope_right))

\* TypedExpr::Assignment
build_assignment(self, body, stack, scope) ==
    LET value_scope == Append(scope, IdNext(self))
    IN  Let(build_ir(IdAdvance(self), body.value, <<>>, value_scope),
            LAMBDA value :
                IF value.panic # "" THEN Abort(value.self, stack, value.panic)
                ELSE Let(assignment_ir(value.self, body.pattern, <<>>,
                                       value.ir_stack, body.kind, scope),
                         LAMBDA r :
                             IF r.panic # "" THEN Abort(r.self, stack, r.panic)
                             ELSE Done(r.self, stack \o r.pattern_vec)))

\* the end of TypedExpr::When: the subject is lowered last, behind a Lam node
\* and in front of a Var of the constructor variable when a clause reads it
build_when_subject(fin, subject, names, when_node, stack, scope) ==
    IF fin.panic # "" THEN Abort(fin.self, stack, fin.panic)
    ELSE IF fin.needs_constr_var
    THEN Let(build_ir(fin.self, subject,
                      Append(stack, IRLam(scope, names.constr_var)), scope),
             LAMBDA subj :
                 IF subj.panic # "" THEN subj
                 ELSE Done(IdAdvance(subj.self),
                           Append(Append(subj.ir_stack, when_node),
                                  IRVar(Append(scope, IdNext(subj.self)),
                                        ValueConstructor(subject.tipo, LocalVariable),
                                        names.constr_var))
                               \o fin.pattern_vec))
    ELSE Let(build_ir(IdAdvance(fin.self), subject, Append(stack, when_node),
                      Append(scope, IdNext(fin.self))),
             LAMBDA subj :
                 IF subj.panic # "" THEN subj
                 ELSE Done(subj.self, subj.ir_stack \o fin.pattern_vec))

\* the last clause of TypedExpr::When, lowered as IR::Finally; st is the state
\* the loop over the other clauses ended in
build_when_last(st, last_clause, subject, names, when_node, stack, scope) ==
    IF st.panic # "" THEN Abort(st.self, stack, st.panic)
    ELSE Let(build_ir(IdAdvance(st.self), last_clause.then, st.values,
                      Append(scope, IdNext(st.self))),
             LAMBDA last_body :
                 IF last_body.panic # ""
                 THEN Abort(last_body.self, stack, last_body.panic)
                 ELSE build_when_subject(
                          when_ir(last_body.self, last_clause.pattern[1],
                                  Append(st.pattern_vec,
                                         IRFinally(Append(scope, IdNext(st.self)))),
                                  last_body.ir_stack, subject.tipo, names.constr_var,
                                  st.needs_constr_var, scope),
                          subject, names, when_node, stack, scope))

\* TypedExpr::When
build_when(self, body, stack, scope) ==
    LET names == [subject_name |-> "__subject_name_" \o ToString(IdNext(self)),
                  constr_var |-> "__constr_name_" \o ToString(IdNext(IdAdvance(self)))]
        self2 == IdAdvance(IdAdvance(self))
        subject == body.subjects[1]
        clauses == body.clauses
    IN
    IF clauses = <<>> THEN Done(self2, stack)
    ELSE build_when_last(
             when_clauses(PDone(self2, <<>>, <<>>, FALSE),
                          SubSeq(clauses, 1, Len(clauses) - 1), subject, names, scope),
             clauses[Len(clauses)], subject, names,
             IRWhen(scope, Len(clauses), names.subject_name, subject.tipo),
             stack, scope)

\* TypedExpr::ModuleSelect
build_module_select(self, body, stack, scope) ==
    LET constructor == body.constructor IN
    IF constructor.tag # "Fn" THEN Abort(self, stack, "todo")
    ELSE IF FunctionAccessKey(body.module_name, constructor.name) \in DOMAIN functions
    THEN Abort(self, stack, "todo")
    ELSE IF constructor.builtin = None THEN Abort(self, stack, "unwrap")
    ELSE Done(self, Append(stack, IRBuiltin(scope, constructor.builtin[1])))

\* TypedExpr::RecordAccess: the record is lowered under the same scope
build_record_access(self, body, stack, scope) ==
    build_ir([self EXCEPT !.needs_field_access = TRUE], body.record,
             Append(stack, IRRecordAccess(scope, body.index, body.tipo)), scope)

build_ir(self, body, stack, scope) ==
    CASE body.tag = "Int" -> Done(self, Append(stack, IRInt(scope, body.value)))
      [] body.tag = "String" -> Done(self, Append(stack, IRString(scope, body.text)))
      [] body.tag = "ByteArray" ->
            Done(self, Append(stack, IRByteArray(scope, body.bytes)))
      [] body.tag \in {"Sequence", "Pipeline"} ->
            build_ir_each(Done(self, stack), body.expressions, scope)
      [] body.tag = "Var" ->
            Done(self, Append(stack, IRVar(scope, body.constructor, body.name)))
      [] body.tag = "List" -> build_list(self, body, stack, scope)
      [] body.tag = "Call" -> build_call(self, body, stack, scope)
      [] body.tag = "BinOp" -> build_binop(self, body, stack, scope)
      [] body.tag = "Assignment" -> build_assignment(self, body, stack, scope)
      [] body.tag = "When" -> build_when(self, body, stack, scope)
      [] body.tag = "RecordAccess" -> build_record_access(self, body, stack, scope)
      [] body.tag = "ModuleSelect" -> build_module_select(self, body, stack, scope)
      [] OTHER -> Abort(self, stack, "todo")

(***************************************************************************)
(* Function hoisting.  An IndexMap is a sequence of [key, value] entries   *)
(* in insertion order.                                                     *)
(***************************************************************************)
MapHas(map, key) == \E i \in 1..Len(map) : map[i].key = key
MapGet(map, key) == map[CHOOSE i \in 1..Len(map) : map[i].key = key].value
\* IndexMap::insert: an existing key keeps its position
MapInsert(map, key, value) ==
    IF MapHas(map, key)
    THEN [i \in 1..Len(map) |->
             IF map[i].key = key THEN [key |-> key, value |-> value] ELSE map[i]]
    ELSE Append(map, [key |-> key, value |-> value])
\* IndexMap::shift_remove
MapShiftRemove(map, key) == LET keep(e) == e.key # key IN SelectSeq(map, keep)

\* Vec::insert(index, item), index counted from 0
VecInsert(vec, index, item) ==
    SubSeq(vec, 1, index) \o <<item>> \o SubSeq(vec, index + 1, Len(vec))
\* Vec::remove(index), index counted from 0
VecRemove(vec, index) == SubSeq(vec, 1, index) \o SubSeq(vec, index + 2, Len(vec))

\* slice::binary_search on a vector that need not be sorted: the loop of the
\* standard library; the result is the index found (from 0), or -1 for Err.
RECURSIVE BinarySearchLoop(_, _, _, _, _)
BinarySearchLoop(vec, key, left, right, size) ==
    IF left < right
    THEN LET mid == left + (size \div 2)
             cmp == KeyCmp(vec[mid + 1], key)
         IN  IF cmp < 0 THEN BinarySearchLoop(vec, key, mid + 1, right, right - (mid + 1))
             ELSE IF cmp > 0 THEN BinarySearchLoop(vec, key, left, mid, mid - left)
             ELSE mid
    ELSE -1

binary_search(vec, key) == BinarySearchLoop(vec, key, 0, Len(vec), Len(vec))

\* the keys of the IR::Var nodes of `ir` whose variant is ModuleFn, in order
RECURSIVE FuncCalls(_)
FuncCalls(ir) ==
    IF ir = <<>> THEN <<>>
    ELSE LET node == Head(ir) IN
         IF node.tag = "Var" /\ node.constructor.variant.tag = "ModuleFn"
         THEN <<FunctionAccessKey(node.constructor.variant.module,
                                  node.constructor.variant.fname)>>
                  \o FuncCalls(Tail(ir))
         ELSE FuncCalls(Tail(ir))

\* the names of the Named and NamedLabeled arguments
RECURSIVE ArgNames(_)
ArgNames(arguments) ==
    IF arguments = <<>> THEN <<>>
    ELSE IF Head(arguments).arg_name.tag \in {"Named", "NamedLabeled"}
    THEN <<Head(arguments).arg_name.name>> \o ArgNames(Tail(arguments))
    ELSE ArgNames(Tail(arguments))

\* FuncComponents of a function met for the first time
FuncComponentsOf(function_key, func_ir, args) ==
    LET func_calls == FuncCalls(func_ir)
        index == binary_search(func_calls, function_key)
    IN  IF index >= 0
        THEN [ir |-> func_ir, dependencies |-> VecRemove(func_calls, index),
              args |-> args, recursive |-> TRUE]
        ELSE [ir |-> func_ir, dependencies |-> func_calls, args |-> args,
              recursive |-> FALSE]

\* the state of the reverse walk
Walk(self, to_be_defined_map, defined_func_and_calls, func_index_map, panic) ==
    [self |-> self, to_be_defined_map |-> to_be_defined_map,
     defined_func_and_calls |-> defined_func_and_calls,
     func_index_map |-> func_index_map, panic |-> panic]

\* the IR::Var arm of the reverse walk
define_ir_var(w, node) ==
    LET variant == node.constructor.variant
        scope == node.scope
    IN
    IF variant.tag # "ModuleFn" \/ variant.builtin # None THEN w
    ELSE
    LET function_key == FunctionAccessKey(variant.module, variant.fname) IN
    IF MapHas(w.to_be_defined_map, function_key)
    THEN [w EXCEPT !.to_be_defined_map =
                      MapInsert(@, function_key,
                                get_common_ancestor(scope,
                                    MapGet(w.to_be_defined_map, function_key)))]
    ELSE IF MapHas(w.defined_func_and_calls, function_key)
    THEN [w EXCEPT !.to_be_defined_map = MapInsert(@, function_key, scope)]
    ELSE IF function_key \notin DOMAIN functions THEN [w EXCEPT !.panic = "unwrap"]
    ELSE
    LET function == functions[function_key] IN
    Let(build_ir(w.self, function.body, <<>>, scope),
        LAMBDA built :
            IF built.panic # ""
            THEN [w EXCEPT !.self = built.self, !.panic = built.panic]
            ELSE [w EXCEPT
                     !.self = built.self,
                     !.to_be_defined_map = MapInsert(@, function_key, scope),
                     !.defined_func_and_calls =
                         MapInsert(@, function_key,
                                   FuncComponentsOf(function_key, built.ir_stack,
                                                    ArgNames(function.arguments)))])

\* `for func in to_be_defined_map.clone().iter()` of the arm of the other nodes
RECURSIVE define_ir_place(_, _, _, _)
define_ir_place(w, pending, index, scope) ==
    IF pending = <<>> THEN w
    ELSE
    LET func == Head(pending)
        next ==
            IF get_common_ancestor(scope, func.value) = scope
            THEN IF MapHas(w.func_index_map, func.key)
                 THEN LET index_scope == MapGet(w.func_index_map, func.key).scope IN
                      IF get_common_ancestor(index_scope, func.value) = scope
                      THEN [w EXCEPT
                               !.func_index_map =
                                   MapInsert(@, func.key,
                                             [index |-> index, scope |-> scope]),
                               !.to_be_defined_map = MapShiftRemove(@, func.key)]
                      ELSE [w EXCEPT
                               !.to_be_defined_map =
                                   MapInsert(@, func.key,
                                       get_common_ancestor(index_scope, func.value))]
                 ELSE [w EXCEPT
                          !.func_index_map =
                              MapInsert(@, func.key, [index |-> index, scope |-> scope]),
                          !.to_be_defined_map = MapShiftRemove(@, func.key)]
            ELSE w
    IN  define_ir_place(next, Tail(pending), index, scope)

\* `for (index, ir) in ir_stack.iter().enumerate().rev()`; position counts from 1
RECURSIVE define_ir_walk(_, _, _)
define_ir_walk(w, stack, position) ==
    IF w.panic # "" \/ position = 0 THEN w
    ELSE LET node == stack[position] IN
         define_ir_walk(
             IF node.tag = "Var" THEN define_ir_var(w, node)
             ELSE define_ir_place(w, w.to_be_defined_map, position - 1, node.scope),
             stack, position - 1)

\* `for item in sorted_functions.into_iter().rev() { ir_stack.insert(index, item) }`
RECURSIVE InsertAllRev(_, _, _)
InsertAllRev(vec, index, items) ==
    IF items = <<>> THEN vec
    ELSE InsertAllRev(VecInsert(vec, index, items[Len(items)]), index,
                      SubSeq(items, 1, Len(items) - 1))

RECURSIVE define_ir(_, _, _)
RECURSIVE define_ir_dependencies(_, _, _, _, _)
RECURSIVE define_ir_insert(_, _, _, _)

\* `for dependency in dependencies`; st = [self, sorted_functions, panic]
define_ir_dependencies(st, dependencies, scope, w, depth) ==
    IF st.panic # "" \/ dependencies = <<>> THEN st
    ELSE
    LET dependency == Head(dependencies) IN
    IF ~MapHas(w.func_index_map, dependency) THEN [st EXCEPT !.panic = "unwrap"]
    ELSE
    LET dependency_scope == MapGet(w.func_index_map, dependency).scope IN
    IF get_common_ancestor(scope, dependency_scope) = scope
    THEN LET components == MapGet(w.defined_func_and_calls, dependency) IN
         Let(define_ir(st.self, components.ir, depth + 1),
             LAMBDA nested :
                 define_ir_dependencies(
                     [self |-> nested.self,
                      sorted_functions |-> st.sorted_functions \o nested.ir_stack,
                      panic |-> nested.panic],
                     Tail(dependencies), scope, w, depth))
    ELSE define_ir_dependencies(st, Tail(dependencies), scope, w, depth)

\* self.defined_functions.insert(func.clone(), ()) without its effect: the
\* DefineFunc node inserted before it is recorded in the history alone.
MarkDefinedForgotten(self, func) ==
    [self EXCEPT !.define_func_log = Append(@, func)]

\* self.defined_functions.insert(func.clone(), ()), which follows the insertion
\* of the DefineFunc node of func; the insertion is recorded in the history.
MarkDefined(self, func) ==
    [self EXCEPT !.defined_functions = @ \cup {func},
                 !.define_func_log = Append(@, func)]

\* `for func_index in func_index_map.iter()`
define_ir_insert(r, entries, w, depth) ==
    IF r.panic # "" \/ entries = <<>> THEN r
    ELSE
    LET func == Head(entries).key
        index == Head(entries).value.index
        scope == Head(entries).value.scope
        function_components == MapGet(w.defined_func_and_calls, func)
    IN
    Let(define_ir_dependencies(
            [self |-> r.self, sorted_functions |-> <<>>, panic |-> ""],
            function_components.dependencies, scope, w, depth),
        LAMBDA deps :
            IF deps.panic # "" THEN Abort(deps.self, r.ir_stack, deps.panic)
            ELSE IF func \in deps.self.defined_functions
            THEN define_ir_insert(Done(deps.self, r.ir_stack), Tail(entries), w, depth)
            ELSE define_ir_insert(
                     Done(MarkDefined(deps.self, func),
                          VecInsert(InsertAllRev(r.ir_stack, index,
                                                 deps.sorted_functions),
                                    index,
                                    IRDefineFunc(scope, func.function_name,
                                                 func.module_name,
                                                 function_components.args,
                                                 function_components.recursive))),
                     Tail(entries), w, depth))

\* define_ir; a nesting deeper than any finite one of the model's function table
\* is the unbounded recursion, which ends in a stack overflow.
define_ir(self, stack, depth) ==
    IF depth > MaxDefineDepth THEN Abort(self, stack, "stack overflow")
    ELSE Let(define_ir_walk(Walk(self, <<>>, <<>>, <<>>, ""), stack, Len(stack)),
             LAMBDA w :
                 IF w.panic # "" THEN Abort(w.self, stack, w.panic)
                 ELSE define_ir_insert(Done(w.self, stack), w.func_index_map, w,
                                       depth))

(***************************************************************************)
(* UPLC terms.                                                             *)
(***************************************************************************)
\* Name { text, unique: 0 }
Name(text) == [text |-> text, unique |-> 0]
TVar(name) == [tag |-> "Var", name |-> name]
TLambda(parameter_name, body) ==
    [tag |-> "Lambda", parameter_name |-> parameter_name, body |-> body]
TApply(function, argument) ==
    [tag |-> "Apply", function |-> function, argument |-> argument]
TForce(term) == [tag |-> "Force", term |-> term]
TDelay(term) == [tag |-> "Delay", term |-> term]
TConstant(constant) == [tag |-> "Constant", constant |-> constant]
TBuiltin(func) == [tag |-> "Builtin", func |-> func]
TError == [tag |-> "Error"]

\* Constant and PlutusData
CInteger(n) == [kind |-> "Integer", int |-> n]
CString(text) == [kind |-> "String", text |-> text]
CByteString(bytes) == [kind |-> "ByteString", bytes |-> bytes]
CBool(b) == [kind |-> "Bool", bool |-> b]
CUnit == [kind |-> "Unit"]
CProtoList(elem, items) == [kind |-> "ProtoList", elem |-> elem, items |-> items]
CProtoPair(fst, snd) == [kind |-> "ProtoPair", fst |-> fst, snd |-> snd]
CData(data) == [kind |-> "Data", data |-> data]
DBigInt(n) == [ctor |-> "BigInt", int |-> n]
DBoundedBytes(bytes) == [ctor |-> "BoundedBytes", bytes |-> bytes]
DArray(items) == [ctor |-> "Array", items |-> items]
DConstr(index, fields) == [ctor |-> "Constr", index |-> index, fields |-> fields]

\* Term::force_wrap
force_wrap(term) == TForce(term)

\* DefaultFunction::force_count: one Force for each type argument of the builtin
force_count(func) ==
    CASE func \in {"FstPair", "SndPair", "ChooseList"} -> 2
      [] func \in {"IfThenElse", "ChooseUnit", "Trace", "MkCons", "HeadList",
                   "TailList", "NullList", "ChooseData"} -> 1
      [] OTHER -> 0

\* Type::get_uplc_type
get_uplc_type(tipo) ==
    IF is_int(tipo) THEN "Integer"
    ELSE IF is_bytearray(tipo) THEN "ByteString"
    ELSE IF is_string(tipo) THEN "String"
    ELSE IF is_bool(tipo) THEN "Bool"
    ELSE IF is_list(tipo) THEN "List"
    ELSE "Data"

\* the names under which the field helpers are bound
CONSTR_FIELDS_EXPOSER == "constr_fields_exposer"
CONSTR_GET_FIELD == "constr_get_field"

\* builder::constr_index_exposer
constr_index_exposer(term) ==
    TApply(TForce(TForce(TBuiltin("FstPair"))), TApply(TBuiltin("UnConstrData"), term))

(***************************************************************************)
(* IR -> UPLC synthesis.  An operation returns the code generator, the     *)
(* argument stack (its top is its last element) and `panic`.               *)
(***************************************************************************)
GDone(self, arg_stack) == [self |-> self, arg_stack |-> arg_stack, panic |-> ""]
GAbort(self, arg_stack, why) == [self |-> self, arg_stack |-> arg_stack, panic |-> why]
\* the panic of `arg_stack.pop().unwrap()` on an empty stack
EmptyPop == "unwrap of arg_stack.pop()"
\* the k-th term popped from the stack, and the stack after k pops
Popped(arg_stack, k) == arg_stack[Len(arg_stack) + 1 - k]
Rest(arg_stack, k) == SubSeq(arg_stack, 1, Len(arg_stack) - k)

\* IR::Var
gen_var(self, ir, arg_stack) ==
    LET variant == ir.constructor.variant
        tipo == ir.constructor.tipo
    IN
    IF variant.tag = "LocalVariable"
    THEN GDone(self, Append(arg_stack, TVar(Name(ir.name))))
    ELSE IF variant.tag \in {"ModuleConstant", "ModuleFn"}
    THEN GAbort(self, arg_stack, "todo")
    ELSE
    IF ~(tipo.tag = "App" \/ (tipo.tag = "Fn" /\ tipo.ret.tag = "App"))
    THEN GAbort(self, arg_stack, IF tipo.tag = "Fn" THEN "unreachable" ELSE "todo")
    ELSE
    LET defined_type == IF tipo.tag = "Fn" THEN tipo.ret.name ELSE tipo.name IN
    IF defined_type = "Bool"
    THEN GDone(self, Append(arg_stack, TConstant(CBool(variant.name = "True"))))
    ELSE IF defined_type \notin DOMAIN data_types THEN GAbort(self, arg_stack, "unwrap")
    ELSE
    LET constr_index == ConstructorIndex(data_types[defined_type], variant.name) IN
    IF constr_index < 0 THEN GAbort(self, arg_stack, "unwrap")
    ELSE GDone(self,
               Append(arg_stack,
                      TApply(TBuiltin("ConstrData"),
                             TApply(TApply(TBuiltin("MkPairData"),
                                           TConstant(CData(DBigInt(constr_index)))),
                                    TConstant(CData(DArray(<<>>)))))))

\* `for arg in args { term = MkCons arg term }`
RECURSIVE ConsAll(_, _)
ConsAll(args, term) ==
    IF args = <<>> THEN term
    ELSE ConsAll(Tail(args),
                 TApply(TApply(TForce(TBuiltin("MkCons")), Head(args)), term))

\* IR::List
gen_list(self, ir, arg_stack) ==
    IF Len(arg_stack) < ir.count THEN GAbort(self, arg_stack, EmptyPop)
    ELSE
    LET args == [k \in 1..ir.count |-> Popped(arg_stack, k)]
        rest == Rest(arg_stack, ir.count)
        is_constant(arg) == arg.tag = "Constant"
        constants == LET found == SelectSeq(args, is_constant)
                     IN  [k \in 1..Len(found) |-> found[k].constant]
    IN
    IF ir.tipo.tag # "App" THEN GAbort(self, rest, "unreachable")
    ELSE IF ir.tipo.args = <<>> THEN GAbort(self, rest, "index out of bounds")
    ELSE
    LET list_type == ir.tipo.args[1] IN
    IF Len(constants) = Len(args) /\ ~ir.tail
    THEN GDone(self, Append(rest,
                            TConstant(CProtoList(get_uplc_type(list_type), constants))))
    ELSE IF ir.tail /\ rest = <<>> THEN GAbort(self, rest, EmptyPop)
    ELSE LET term == IF ir.tail THEN Popped(rest, 1)
                     ELSE TConstant(CProtoList(get_uplc_type(list_type), <<>>))
             below == IF ir.tail THEN Rest(rest, 1) ELSE rest
         IN  GDone(self, Append(below, ConsAll(args, term)))

\* IR::Call
gen_call(self, ir, arg_stack) ==
    IF ir.count < 2 THEN GAbort(self, arg_stack, "todo")
    ELSE IF Len(arg_stack) < ir.count THEN GAbort(self, arg_stack, EmptyPop)
    ELSE LET RECURSIVE ApplyAll(_, _)
             ApplyAll(term, k) ==
                 IF k > ir.count THEN term
                 ELSE ApplyAll(TApply(term, Popped(arg_stack, k)), k + 1)
         IN  GDone(self, Append(Rest(arg_stack, ir.count),
                                ApplyAll(Popped(arg_stack, 1), 2)))

\* IR::Builtin
gen_builtin(self, ir, arg_stack) ==
    LET RECURSIVE Forced(_, _)
        Forced(term, n) == IF n = 0 THEN term ELSE Forced(TForce(term), n - 1)
    IN  GDone(self, Append(arg_stack, Forced(TBuiltin(ir.func), force_count(ir.func))))

\* The expansion of Eq on Bool with the same constants in both branches.
bool_eq_one_branch(left, right) ==
    LET if_then_else(cond, then, else) ==
            TApply(TApply(TApply(TForce(TBuiltin("IfThenElse")), cond), then), else)
    IN  TForce(if_then_else(
            left,
            TDelay(if_then_else(right, TConstant(CBool(TRUE)), TConstant(CBool(FALSE)))),
            TDelay(if_then_else(right, TConstant(CBool(TRUE)), TConstant(CBool(FALSE))))))

\* BinOp::Eq on Bool: the term pushed by the branch `name == "Bool"`
bool_eq(left, right) ==
    LET if_then_else(cond, then, else) ==
            TApply(TApply(TApply(TForce(TBuiltin("IfThenElse")), cond), then), else)
    IN  TForce(if_then_else(
            left,
            TDelay(if_then_else(right, TConstant(CBool(TRUE)), TConstant(CBool(FALSE)))),
            TDelay(if_then_else(right, TConstant(CBool(FALSE)), TConstant(CBool(TRUE))))))

\* IR::BinOp
gen_binop(self, ir, arg_stack) ==
    IF Len(arg_stack) < 2 THEN GAbort(self, arg_stack, EmptyPop)
    ELSE
    LET left == Popped(arg_stack, 1)
        right == Popped(arg_stack, 2)
        rest == Rest(arg_stack, 2)
        if_then_else(cond, then, else) ==
            TApply(TApply(TApply(TForce(TBuiltin("IfThenElse")), cond), then), else)
        apply2(func, a, b) == TApply(TApply(TBuiltin(func), a), b)
    IN
    IF ir.name = "Eq"
    THEN IF ir.tipo.tag # "App" THEN GAbort(self, rest, "unreachable")
         ELSE IF ir.tipo.name = "Bool"
         THEN GDone(self, Append(rest, bool_eq(left, right)))
         ELSE LET default_builtin ==
                      IF ir.tipo.name = "Int" THEN "EqualsInteger"
                      ELSE IF ir.tipo.name = "String" THEN "EqualsString"
                      ELSE IF ir.tipo.name = "ByteArray" THEN "EqualsByteString"
                      ELSE "EqualsData"
              IN  GDone(self, Append(rest, apply2(default_builtin, left, right)))
    ELSE IF ir.name = "LtInt"
    THEN GDone(self, Append(rest, apply2("LessThanInteger", left, right)))
    ELSE IF ir.name = "GtInt"
    THEN GDone(self, Append(rest, apply2("LessThanInteger", right, left)))
    ELSE IF ir.name = "AddInt"
    THEN GDone(self, Append(rest, apply2("AddInteger", left, right)))
    ELSE GAbort(self, rest, "todo")

\* IR::Assignment and IR::Lam: the popped value is bound to the name in the
\* term popped after it
gen_binding(self, ir, arg_stack) ==
    IF Len(arg_stack) < 2 THEN GAbort(self, arg_stack, EmptyPop)
    ELSE GDone(self, Append(Rest(arg_stack, 2),
                            TApply(TLambda(Name(ir.name), Popped(arg_stack, 2)),
                                   Popped(arg_stack, 1))))

\* IR::DefineFunc
gen_define_func(self, ir, arg_stack) ==
    IF arg_stack = <<>> THEN GAbort(self, arg_stack, EmptyPop)
    ELSE GAbort(self, Rest(arg_stack, 1), "todo")

\* IR::When
gen_when(self, ir, arg_stack) ==
    IF Len(arg_stack) < 2 THEN GAbort(self, arg_stack, EmptyPop)
    ELSE
    LET subject == Popped(arg_stack, 1)
        term == Popped(arg_stack, 2)
        tipo == ir.tipo
    IN  GDone(self, Append(Rest(arg_stack, 2),
            TApply(TLambda(Name(ir.subject_name), term),
                   IF is_int(tipo) \/ is_bytearray(tipo) \/ is_string(tipo)
                          \/ is_list(tipo)
                   THEN subject
                   ELSE constr_index_exposer(subject))))

\* The IR::Clause arm with the two delayed branches in each other's place.
gen_clause_branches_swapped(self, ir, arg_stack) ==
    IF Len(arg_stack) < 3 THEN GAbort(self, arg_stack, EmptyPop)
    ELSE GDone(self, Append(Rest(arg_stack, 3),
            force_wrap(TApply(TApply(TApply(TForce(TBuiltin("IfThenElse")),
                                            TApply(TApply(TBuiltin("EqualsInteger"),
                                                          TVar(Name(ir.subject_name))),
                                                   Popped(arg_stack, 1))),
                                     TDelay(Popped(arg_stack, 3))),
                              TDelay(Popped(arg_stack, 2))))))

\* IR::Clause
gen_clause(self, ir, arg_stack) ==
    IF Len(arg_stack) < 3 THEN GAbort(self, arg_stack, EmptyPop)
    ELSE
    LET clause == Popped(arg_stack, 1)
        body == Popped(arg_stack, 2)
        term == Popped(arg_stack, 3)
        rest == Rest(arg_stack, 3)
        tipo == ir.tipo
        check(func) == TApply(TBuiltin(func), TVar(Name(ir.subject_name)))
    IN
    IF ~is_int(tipo) /\ ~is_bytearray(tipo) /\ (is_bool(tipo) \/
           (~is_string(tipo) /\ is_list(tipo)))
    THEN GAbort(self, rest, "todo")
    ELSE
    LET checker == IF is_int(tipo) THEN check("EqualsInteger")
                   ELSE IF is_bytearray(tipo) THEN check("EqualsByteString")
                   ELSE IF is_string(tipo) THEN check("EqualsString")
                   ELSE check("EqualsInteger")
    IN  GDone(self, Append(rest,
            force_wrap(TApply(TApply(TApply(TForce(TBuiltin("IfThenElse")),
                                            TApply(checker, clause)),
                                     TDelay(body)),
                              TDelay(term)))))

\* IR::Finally
gen_finally(self, ir, arg_stack) ==
    IF arg_stack = <<>> THEN GAbort(self, arg_stack, EmptyPop)
    ELSE GDone(self, Rest(arg_stack, 1))

\* the unwrapper of a field of the given type around HeadList of a field list
FieldUnwrapper(tipo, fields) ==
    LET head == TApply(force_wrap(TBuiltin("HeadList")), fields) IN
    IF is_int(tipo) THEN TApply(TBuiltin("UnIData"), head)
    ELSE IF is_bytearray(tipo) THEN TApply(TBuiltin("UnBData"), head)
    ELSE IF is_list(tipo) THEN TApply(TBuiltin("UnListData"), head)
    ELSE head

\* IR::RecordAccess
gen_record_access(self, ir, arg_stack) ==
    IF arg_stack = <<>> THEN GAbort(self, arg_stack, EmptyPop)
    ELSE
    LET constr == Popped(arg_stack, 1)
        tipo == ir.tipo
        term == TApply(TApply(TVar(Name(CONSTR_GET_FIELD)),
                              TApply(TVar(Name(CONSTR_FIELDS_EXPOSER)), constr)),
                       TConstant(CInteger(ir.index)))
    IN  GDone(self, Append(Rest(arg_stack, 1),
            IF is_int(tipo) THEN TApply(TBuiltin("UnIData"), term)
            ELSE IF is_bytearray(tipo) THEN TApply(TBuiltin("UnBData"), term)
            ELSE IF is_list(tipo) THEN TApply(TBuiltin("UnListData"), term)
            ELSE term))

\* `for _ in 0..n { id_list.push(self.id_gen.next()) }`
IdList(self, n) == [k \in 1..n |-> self.id_gen + (k - 1)]
IdAdvanceBy(self, n) == [self EXCEPT !.id_gen = @ + n]

\* list_access_to_uplc; the result is [term, panic]
RECURSIVE list_access_to_uplc(_, _, _, _, _)
list_access_to_uplc(names, id_list, tail, current_index, term) ==
    IF names = <<>> THEN [term |-> TError, panic |-> "unwrap"]
    ELSE
    LET first == Head(names)
        rest == Tail(names)
        tail_name == Name("tail_index_" \o ToString(current_index) \o "_"
                              \o ToString(id_list[current_index + 1]))
        head_of_tail == TApply(TForce(TBuiltin("HeadList")), TVar(tail_name))
        tail_of_tail == TApply(TForce(TBuiltin("TailList")), TVar(tail_name))
    IN
    IF current_index + 1 > Len(id_list)
    THEN [term |-> TError, panic |-> "index out of bounds"]
    ELSE IF Len(rest) = 1 /\ tail
    THEN [term |-> TLambda(tail_name,
                       TApply(TLambda(Name(first),
                                  TApply(TLambda(Name(rest[1]), term), tail_of_tail)),
                              head_of_tail)),
          panic |-> ""]
    ELSE IF rest = <<>>
    THEN [term |-> TLambda(tail_name, TApply(TLambda(Name(first), term), head_of_tail)),
          panic |-> ""]
    ELSE LET inner == list_access_to_uplc(rest, id_list, tail, current_index + 1, term)
         IN  [term |-> TLambda(tail_name,
                           TApply(TLambda(Name(first),
                                          TApply(inner.term, tail_of_tail)),
                                  head_of_tail)),
              panic |-> inner.panic]

\* IR::ListAccessor
gen_list_accessor(self, ir, arg_stack) ==
    IF Len(arg_stack) < 2 THEN GAbort(self, arg_stack, EmptyPop)
    ELSE
    LET value == Popped(arg_stack, 1)
        term == Popped(arg_stack, 2)
        rest == Rest(arg_stack, 2)
        id_list == IdList(self, Len(ir.names))
        self2 == IdAdvanceBy(self, Len(ir.names))
    IN
    IF ir.names = <<>> THEN GAbort(self2, rest, "unwrap")
    ELSE
    LET first_name == Head(ir.names)
        access == list_access_to_uplc(Tail(ir.names), id_list, ir.tail, 0, term)
    IN
    IF access.panic # "" THEN GAbort(self2, rest, access.panic)
    ELSE GDone(self2, Append(rest,
             TApply(TLambda(Name(first_name),
                            TApply(access.term,
                                   TApply(TForce(TBuiltin("TailList")), value))),
                    TApply(TForce(TBuiltin("HeadList")), value))))

\* the loop `for index in (0..highest.0).rev()` of IR::FieldsExpose: `indices`
\* holds the fields the reversed iterator has not yet handed out
RECURSIVE FieldsExposeLoop(_, _, _, _, _, _)
FieldsExposeLoop(index, indices, current_field, id_list, constr_name_lam, body) ==
    IF index < 0 THEN body
    ELSE
    LET tail_name(i) == Name("__tail_" \o ToString(i) \o "_" \o ToString(id_list[i + 1]))
        fetched == IF current_field = None /\ indices # <<>>
                   THEN Some(indices[Len(indices)]) ELSE current_field
        left == IF current_field = None /\ indices # <<>>
                THEN SubSeq(indices, 1, Len(indices) - 1) ELSE indices
        prev_tail == IF index = 0 THEN TVar(Name(constr_name_lam))
                     ELSE TVar(tail_name(index - 1))
    IN
    IF fetched # None /\ fetched[1].index = index
    THEN FieldsExposeLoop(index - 1, left, None, id_list, constr_name_lam,
             TApply(TLambda(Name(fetched[1].name),
                            TApply(TLambda(tail_name(index), body),
                                   TApply(force_wrap(TBuiltin("TailList")), prev_tail))),
                    FieldUnwrapper(fetched[1].tipo, prev_tail)))
    ELSE FieldsExposeLoop(index - 1, left, fetched, id_list, constr_name_lam,
             TApply(TLambda(tail_name(index), body),
                    TApply(force_wrap(force_wrap(TBuiltin("TailList"))), prev_tail)))

\* IR::FieldsExpose
gen_fields_expose(self, ir, arg_stack) ==
    LET self1 == [self EXCEPT !.needs_field_access = TRUE] IN
    IF Len(arg_stack) < 2 THEN GAbort(self1, arg_stack, EmptyPop)
    ELSE IF ir.indices = <<>> THEN GAbort(self1, Rest(arg_stack, 2), "unwrap")
    ELSE
    LET constr_var == Popped(arg_stack, 1)
        body == Popped(arg_stack, 2)
        highest == ir.indices[Len(ir.indices)]
        indices == SubSeq(ir.indices, 1, Len(ir.indices) - 1)
        id_list == IdList(self1, highest.index)
        constr_name_lam ==
            "__constr_fields_" \o ToString(IdNext(IdAdvanceBy(self1, highest.index)))
        self2 == IdAdvanceBy(self1, highest.index + 1)
        last_prev_tail ==
            TVar(Name(IF highest.index = 0 THEN constr_name_lam
                      ELSE "__tail_" \o ToString(highest.index - 1) \o "_"
                               \o ToString(id_list[highest.index])))
        bound == TApply(TLambda(Name(highest.name), body),
                        FieldUnwrapper(highest.tipo, last_prev_tail))
        exposed == FieldsExposeLoop(highest.index - 1, indices, None, id_list,
                                    constr_name_lam, bound)
    IN  GDone(self2, Append(Rest(arg_stack, 2),
             TApply(TLambda(Name(constr_name_lam), exposed),
                    TApply(TVar(Name(CONSTR_FIELDS_EXPOSER)), constr_var))))

gen_uplc(self, ir, arg_stack) ==
    CASE ir.tag = "Int" ->
            GDone(self, Append(arg_stack, TConstant(CInteger(parse(ir.value)))))
      [] ir.tag = "String" -> GDone(self, Append(arg_stack, TConstant(CString(ir.text))))
      [] ir.tag = "ByteArray" ->
            GDone(self, Append(arg_stack, TConstant(CByteString(ir.bytes))))
      [] ir.tag = "Var" -> gen_var(self, ir, arg_stack)
      [] ir.tag = "Discard" -> GDone(self, Append(arg_stack, TConstant(CUnit)))
      [] ir.tag = "List" -> gen_list(self, ir, arg_stack)
      [] ir.tag = "ListAccessor" -> gen_list_accessor(self, ir, arg_stack)
      [] ir.tag = "Call" -> gen_call(self, ir, arg_stack)
      [] ir.tag = "Builtin" -> gen_builtin(self, ir, arg_stack)
      [] ir.tag = "BinOp" -> gen_binop(self, ir, arg_stack)
      [] ir.tag \in {"Assignment", "Lam"} -> gen_binding(self, ir, arg_stack)
      [] ir.tag = "DefineFunc" -> gen_define_func(self, ir, arg_stack)
      [] ir.tag = "When" -> gen_when(self, ir, arg_stack)
      [] ir.tag = "Clause" -> gen_clause(self, ir, arg_stack)
      [] ir.tag = "Finally" -> gen_finally(self, ir, arg_stack)
      [] ir.tag = "RecordAccess" -> gen_record_access(self, ir, arg_stack)
      [] ir.tag = "FieldsExpose" -> gen_fields_expose(self, ir, arg_stack)
      [] OTHER -> GAbort(self, arg_stack, "todo")

\* `while let Some(ir_element) = ir_stack.pop()`; r = [self, arg_stack, panic]
RECURSIVE uplc_code_gen_loop(_, _)
uplc_code_gen_loop(r, stack) ==
    IF r.panic # "" \/ stack = <<>> THEN r
    ELSE uplc_code_gen_loop(gen_uplc(r.self, stack[Len(stack)], r.arg_stack),
                            SubSeq(stack, 1, Len(stack) - 1))

\* uplc_code_gen; the result keeps the argument stack the loop ended with
uplc_code_gen(self, stack) ==
    Let(uplc_code_gen_loop(GDone(self, <<>>), stack),
        LAMBDA r :
            IF r.panic # ""
            THEN [self |-> r.self, arg_stack |-> r.arg_stack, panic |-> r.panic,
                  term |-> TError]
            ELSE IF r.arg_stack = <<>>
            THEN [self |-> r.self, arg_stack |-> <<>>,
                  panic |-> "index out of bounds", term |-> TError]
            ELSE [self |-> r.self, arg_stack |-> r.arg_stack, panic |-> "",
                  term |-> r.arg_stack[1]])

(***************************************************************************)
(* The helpers of the term builder and the interner.                       *)
(***************************************************************************)
\* builder::constr_fields_exposer: binds the helper that returns the field
\* list of a constructor value, the second component of its (index, fields)
\* pair
constr_fields_exposer(term) ==
    TApply(TLambda(Name(CONSTR_FIELDS_EXPOSER), term),
           TLambda(Name("__constr_var"),
                   TApply(TForce(TForce(TBuiltin("SndPair"))),
                          TApply(TBuiltin("UnConstrData"),
                                 TVar(Name("__constr_var"))))))

\* builder::constr_get_field: binds the helper that advances a field list by
\* `i` tail steps and returns the head; its recursive body is kept opaque
constr_get_field(term) ==
    TApply(TLambda(Name(CONSTR_GET_FIELD), term), [tag |-> "GetFieldHelper"])

\* builder::final_wrapper: the program succeeds when the term returns unit
\* and raises the UPLC error otherwise
final_wrapper(term) == [tag |-> "FinalWrapper", term |-> term]

\* ArgName::get_variable_name
get_variable_name(arg_name) ==
    IF arg_name.tag \in {"Named", "NamedLabeled"} THEN Some(arg_name.name) ELSE None

\* The argument loop of generate walking the arguments from the first to the
\* last, which leaves the last argument outermost.
RECURSIVE WrapArgumentsForward(_, _)
WrapArgumentsForward(arguments, term) ==
    IF arguments = <<>> THEN term
    ELSE LET arg == arguments[1]
             text == IF get_variable_name(arg.arg_name) = None THEN "_"
                     ELSE get_variable_name(arg.arg_name)[1]
         IN  WrapArgumentsForward(Tail(arguments), TLambda(Name(text), term))

\* `for arg in arguments.iter().rev()`: one lambda for each argument
RECURSIVE WrapArguments(_, _)
WrapArguments(arguments, term) ==
    IF arguments = <<>> THEN term
    ELSE LET arg == arguments[Len(arguments)]
             text == IF get_variable_name(arg.arg_name) = None THEN "_"
                     ELSE get_variable_name(arg.arg_name)[1]
         IN  WrapArguments(SubSeq(arguments, 1, Len(arguments) - 1),
                           TLambda(Name(text), term))

\* Interner: the unique of a text is the number of texts met before its first
\* occurrence; `identifiers` is the sequence of the texts met so far
InternName(name, identifiers) ==
    IF \E k \in 1..Len(identifiers) : identifiers[k] = name.text
    THEN [name |-> [name EXCEPT !.unique =
                       (CHOOSE k \in 1..Len(identifiers) : identifiers[k] = name.text) - 1],
          identifiers |-> identifiers]
    ELSE [name |-> [name EXCEPT !.unique = Len(identifiers)],
          identifiers |-> Append(identifiers, name.text)]

\* Interner::term; the result is [term, identifiers]
RECURSIVE InternTerm(_, _)
InternTerm(term, identifiers) ==
    CASE term.tag = "Var" ->
            LET n == InternName(term.name, identifiers)
            IN  [term |-> TVar(n.name), identifiers |-> n.identifiers]
      [] term.tag = "Lambda" ->
            LET n == InternName(term.parameter_name, identifiers)
                b == InternTerm(term.body, n.identifiers)
            IN  [term |-> TLambda(n.name, b.term), identifiers |-> b.identifiers]
      [] term.tag = "Apply" ->
            LET f == InternTerm(term.function, identifiers)
                a == InternTerm(term.argument, f.identifiers)
            IN  [term |-> TApply(f.term, a.term), identifiers |-> a.identifiers]
      [] term.tag \in {"Force", "Delay", "FinalWrapper"} ->
            LET t == InternTerm(term.term, identifiers)
            IN  [term |-> [term EXCEPT !.term = t.term], identifiers |-> t.identifiers]
      [] OTHER -> [term |-> term, identifiers |-> identifiers]

\* Program { version: (1, 0, 0), term }
Program(term) == [version |-> <<1, 0, 0>>, term |-> term]

\* generate with final_wrapper applied after the argument lambdas, so that it
\* encloses them
generate_wrapper_outermost(self, body, arguments) ==
    LET failed(r, ir, args) ==
            [self |-> r.self, panic |-> r.panic, ir |-> ir, arg_stack |-> args,
             program |-> None]
        finish(hoisted, reduced) ==
            IF reduced.panic # ""
            THEN failed(reduced, hoisted.ir_stack, reduced.arg_stack)
            ELSE [self |-> reduced.self, panic |-> "", ir |-> hoisted.ir_stack,
                  arg_stack |-> reduced.arg_stack,
                  program |-> Some(Program(InternTerm(
                      final_wrapper(
                          WrapArguments(arguments,
                              IF reduced.self.needs_field_access
                              THEN constr_fields_exposer(
                                       constr_get_field(reduced.term))
                              ELSE reduced.term)),
                      <<>>).term))]
    IN
    Let(build_ir(IdAdvance(self), body, <<>>, <<IdNext(self)>>),
        LAMBDA built :
            IF built.panic # "" THEN failed(built, built.ir_stack, <<>>)
            ELSE Let(define_ir(built.self, built.ir_stack, 0),
                     LAMBDA hoisted :
                         IF hoisted.panic # ""
                         THEN failed(hoisted, hoisted.ir_stack, <<>>)
                         ELSE finish(hoisted,
                                     uplc_code_gen(hoisted.self, hoisted.ir_stack))))

\* generate; the result keeps the hoisted IR and the argument stack the
\* reduction ended with
generate(self, body, arguments) ==
    LET failed(r, ir, args) ==
            [self |-> r.self, panic |-> r.panic, ir |-> ir, arg_stack |-> args,
             program |-> None]
        finish(hoisted, reduced) ==
            IF reduced.panic # ""
            THEN failed(reduced, hoisted.ir_stack, reduced.arg_stack)
            ELSE [self |-> reduced.self, panic |-> "", ir |-> hoisted.ir_stack,
                  arg_stack |-> reduced.arg_stack,
                  program |-> Some(Program(InternTerm(
                      WrapArguments(arguments,
                          final_wrapper(
                              IF reduced.self.needs_field_access
                              THEN constr_fields_exposer(
                                       constr_get_field(reduced.term))
                              ELSE reduced.term)),
                      <<>>).term))]
    IN
    Let(build_ir(IdAdvance(self), body, <<>>, <<IdNext(self)>>),
        LAMBDA built :
            IF built.panic # "" THEN failed(built, built.ir_stack, <<>>)
            ELSE Let(define_ir(built.self, built.ir_stack, 0),
                     LAMBDA hoisted :
                         IF hoisted.panic # ""
                         THEN failed(hoisted, hoisted.ir_stack, <<>>)
                         ELSE finish(hoisted,
                                     uplc_code_gen(hoisted.self, hoisted.ir_stack))))

(***************************************************************************)
(* Evaluation of UPLC terms: values are constants, closures, delayed       *)
(* terms and partial applications of builtins; `env` is the sequence of    *)
(* [text, val] bindings, the innermost last.                               *)
(***************************************************************************)
VCon(constant) == [tag |-> "VCon", constant |-> constant]
VLam(parameter_name, body, env) ==
    [tag |-> "VLam", parameter_name |-> parameter_name, body |-> body, env |-> env]
VDelay(term, env) == [tag |-> "VDelay", term |-> term, env |-> env]
VBuiltin(func, forces, args) ==
    [tag |-> "VBuiltin", func |-> func, forces |-> forces, args |-> args]
VErr == [tag |-> "VErr"]

\* the number of term arguments of a builtin
arity(func) ==
    CASE func \in {"IfThenElse"} -> 3
      [] func \in {"AddInteger", "EqualsInteger", "LessThanInteger", "MkCons",
                   "EqualsByteString", "EqualsString", "EqualsData", "MkPairData"} -> 2
      [] OTHER -> 1

IsCon(v, kind) == v.tag = "VCon" /\ v.constant.kind = kind
IsData(v, ctor) == IsCon(v, "Data") /\ v.constant.data.ctor = ctor

\* a builtin applied to all of its arguments
BuiltinApply(func, args) ==
    CASE func = "HeadList" ->
            IF IsCon(args[1], "ProtoList") /\ args[1].constant.items # <<>>
            THEN VCon(Head(args[1].constant.items)) ELSE VErr
      [] func = "TailList" ->
            IF IsCon(args[1], "ProtoList") /\ args[1].constant.items # <<>>
            THEN VCon(CProtoList(args[1].constant.elem, Tail(args[1].constant.items)))
            ELSE VErr
      [] func = "MkCons" ->
            IF args[1].tag = "VCon" /\ IsCon(args[2], "ProtoList")
            THEN VCon(CProtoList(args[2].constant.elem,
                                 <<args[1].constant>> \o args[2].constant.items))
            ELSE VErr
      [] func = "UnIData" ->
            IF IsData(args[1], "BigInt")
            THEN VCon(CInteger(args[1].constant.data.int)) ELSE VErr
      [] func = "UnBData" ->
            IF IsData(args[1], "BoundedBytes")
            THEN VCon(CByteString(args[1].constant.data.bytes)) ELSE VErr
      [] func = "UnListData" ->
            IF IsData(args[1], "Array")
            THEN VCon(CProtoList("Data",
                     [k \in 1..Len(args[1].constant.data.items) |->
                         CData(args[1].constant.data.items[k])]))
            ELSE VErr
      [] func = "UnConstrData" ->
            IF IsData(args[1], "Constr")
            THEN VCon(CProtoPair(CInteger(args[1].constant.data.index),
                     CProtoList("Data",
                         [k \in 1..Len(args[1].constant.data.fields) |->
                             CData(args[1].constant.data.fields[k])])))
            ELSE VErr
      [] func = "FstPair" ->
            IF IsCon(args[1], "ProtoPair") THEN VCon(args[1].constant.fst) ELSE VErr
      [] func = "SndPair" ->
            IF IsCon(args[1], "ProtoPair") THEN VCon(args[1].constant.snd) ELSE VErr
      [] func = "AddInteger" ->
            IF IsCon(args[1], "Integer") /\ IsCon(args[2], "Integer")
            THEN VCon(CInteger(args[1].constant.int + args[2].constant.int)) ELSE VErr
      [] func = "EqualsInteger" ->
            IF IsCon(args[1], "Integer") /\ IsCon(args[2], "Integer")
            THEN VCon(CBool(args[1].constant.int = args[2].constant.int)) ELSE VErr
      [] func = "LessThanInteger" ->
            IF IsCon(args[1], "Integer") /\ IsCon(args[2], "Integer")
            THEN VCon(CBool(args[1].constant.int < args[2].constant.int)) ELSE VErr
      [] func = "IfThenElse" ->
            IF IsCon(args[1], "Bool")
            THEN IF args[1].constant.bool THEN args[2] ELSE args[3]
            ELSE VErr
      [] OTHER -> VErr

Lookup(env, text) ==
    LET hits == {k \in 1..Len(env) : env[k].text = text}
    IN  IF hits = {} THEN VErr
        ELSE env[CHOOSE k \in hits : \A j \in hits : j <= k].val

RECURSIVE Eval(_, _)
Eval(term, env) ==
    CASE term.tag = "Var" -> Lookup(env, term.name.text)
      [] term.tag = "Lambda" -> VLam(term.parameter_name, term.body, env)
      [] term.tag = "Delay" -> VDelay(term.term, env)
      [] term.tag = "Constant" -> VCon(term.constant)
      [] term.tag = "Builtin" -> VBuiltin(term.func, force_count(term.func), <<>>)
      [] term.tag = "Force" ->
            LET v == Eval(term.term, env) IN
            IF v.tag = "VDelay" THEN Eval(v.term, v.env)
            ELSE IF v.tag = "VBuiltin" /\ v.forces > 0
            THEN [v EXCEPT !.forces = @ - 1]
            ELSE VErr
      [] term.tag = "Apply" ->
            LET f == Eval(term.function, env) IN
            IF f.tag = "VErr" THEN VErr
            ELSE
            LET a == Eval(term.argument, env) IN
            IF a.tag = "VErr" THEN VErr
            ELSE IF f.tag = "VLam"
            THEN Eval(f.body, Append(f.env, [text |-> f.parameter_name.text, val |-> a]))
            ELSE IF f.tag = "VBuiltin" /\ f.forces = 0
            THEN IF Len(f.args) + 1 = arity(f.func)
                 THEN BuiltinApply(f.func, Append(f.args, a))
                 ELSE [f EXCEPT !.args = Append(@, a)]
            ELSE VErr
      [] OTHER -> VErr

(***************************************************************************)
(* Harness of the scope utility: a caller computes the common ancestors    *)
(* of three paths in both groupings.                                       *)
(***************************************************************************)
LcaIdle == [a |-> <<>>, b |-> <<>>, c |-> <<>>, done |-> FALSE,
            aa |-> <<>>, ab |-> <<>>, ab_c |-> <<>>, a_bc |-> <<>>]

ComputeLca ==
    /\ ~lca.done
    /\ lca' = [lca EXCEPT
                 !.done = TRUE,
                 !.aa = get_common_ancestor(lca.a, lca.a),
                 !.ab = get_common_ancestor(lca.a, lca.b),
                 !.ab_c = get_common_ancestor(get_common_ancestor(lca.a, lca.b), lca.c),
                 !.a_bc = get_common_ancestor(lca.a, get_common_ancestor(lca.b, lca.c))]
    /\ UNCHANGED <<functions, gen, ir_stack, phase, call, twin, synth, project, disk>>

(***************************************************************************)
(* ParsedModules::sequence.  `inputs` is the vector of the (name, deps)    *)
(* pairs of the parsed modules in the iteration order of the map; a node   *)
(* index is the position of its module in `inputs`, counted from 0; a      *)
(* graph is the number of its nodes and the sequence of its edges in the   *)
(* order they were added.                                                  *)
(***************************************************************************)
\* ParsedModule::deps_for_graph
deps_for_graph(name, deps) == [name |-> name, deps |-> deps]

Reverse(seq) == [i \in 1..Len(seq) |-> seq[Len(seq) + 1 - i]]

\* `for (value, _) in &inputs`: the node of every module, by name
indices(inputs) ==
    [value \in {inputs[i].name : i \in 1..Len(inputs)} |->
        (CHOOSE i \in 1..Len(inputs) : inputs[i].name = value) - 1]
\* the name of every node
values(inputs) == [index \in 0..(Len(inputs) - 1) |-> inputs[index + 1].name]

\* `for (value, deps) in inputs`: an edge to every dependency that has a node
RECURSIVE add_edges(_, _, _)
add_edges(inputs, position, edges) ==
    IF position > Len(inputs) THEN edges
    ELSE LET from_index == indices(inputs)[inputs[position].name]
             deps == SelectSeq(inputs[position].deps,
                               LAMBDA dep : dep \in DOMAIN indices(inputs))
         IN  add_edges(inputs, position + 1,
                       edges \o [k \in 1..Len(deps) |->
                                    [from |-> from_index, to |-> indices(inputs)[deps[k]]]])

\* the graph sequence builds from the inputs
module_graph(inputs) == [node_count |-> Len(inputs), edges |-> add_edges(inputs, 1, <<>>)]

\* Graph::neighbors_directed(parent, Outgoing): the targets of the edges of
\* `parent`, the edge added last first
neighbors_directed(graph, parent) ==
    Reverse(LET outgoing == SelectSeq(graph.edges, LAMBDA e : e.from = parent)
            IN  [k \in 1..Len(outgoing) |-> outgoing[k].to])

\* the orders of all nodes, as sequences without repetition
NodeOrders(graph) ==
    {order \in [1..graph.node_count -> 0..(graph.node_count - 1)] :
        \A i, j \in 1..graph.node_count : order[i] = order[j] => i = j}
\* algo::toposort: an order of the nodes in which every edge leads from an
\* earlier node to a later one, or, when there is none, a node in Cycle
toposort(graph) ==
    LET sorted == {order \in NodeOrders(graph) :
                      \A k \in 1..Len(graph.edges) :
                          \E i, j \in 1..graph.node_count :
                              /\ i < j
                              /\ order[i] = graph.edges[k].from
                              /\ order[j] = graph.edges[k].to}
    IN  IF sorted # {}
        THEN {[ok |-> TRUE, sequence |-> order, node |-> 0] : order \in sorted}
        ELSE {[ok |-> FALSE, sequence |-> <<>>, node |-> node] :
                 node \in 0..(graph.node_count - 1)}

\* The loop of find_cycle that pushes no node but the origin.
RECURSIVE find_cycle(_, _, _, _, _)
RECURSIVE find_cycle_loop_origin_only(_, _, _, _, _)
find_cycle_loop_origin_only(origin, nodes, graph, path, seen) ==
    IF nodes = <<>> THEN [found |-> FALSE, path |-> path, seen |-> seen]
    ELSE IF Head(nodes) = origin
    THEN [found |-> TRUE, path |-> Append(path, Head(nodes)), seen |-> seen]
    ELSE IF Head(nodes) \in seen
    THEN find_cycle_loop_origin_only(origin, Tail(nodes), graph, path, seen)
    ELSE Let(find_cycle(origin, Head(nodes), graph, path, seen),
             LAMBDA r :
                 IF r.found THEN r
                 ELSE find_cycle_loop_origin_only(origin, Tail(nodes), graph,
                                                  r.path, r.seen))

\* `for node in graph.neighbors_directed(parent, Direction::Outgoing)` of
\* find_cycle over the neighbours left; the result is what the call returns
\* with the path and the seen set it leaves behind
RECURSIVE find_cycle_loop(_, _, _, _, _)
find_cycle_loop(origin, nodes, graph, path, seen) ==
    IF nodes = <<>> THEN [found |-> FALSE, path |-> path, seen |-> seen]
    ELSE IF Head(nodes) = origin
    THEN [found |-> TRUE, path |-> Append(path, Head(nodes)), seen |-> seen]
    ELSE IF Head(nodes) \in seen
    THEN find_cycle_loop(origin, Tail(nodes), graph, path, seen)
    ELSE Let(find_cycle(origin, Head(nodes), graph, path, seen),
             LAMBDA r :
                 IF r.found
                 THEN [found |-> TRUE, path |-> Append(r.path, Head(nodes)),
                       seen |-> r.seen]
                 ELSE find_cycle_loop(origin, Tail(nodes), graph, r.path, r.seen))

\* find_cycle
find_cycle(origin, parent, graph, path, seen) ==
    find_cycle_loop(origin, neighbors_directed(graph, parent), graph, path,
                    seen \cup {parent})

\* `filter_map(|i| values.remove(i))`: the name of every index, none for an
\* index that was removed before
RECURSIVE remove_each(_, _, _)
remove_each(path, names, left) ==
    IF path = <<>> THEN <<>>
    ELSE IF Head(path) \in left
    THEN <<names[Head(path)]>> \o remove_each(Tail(path), names, left \ {Head(path)})
    ELSE remove_each(Tail(path), names, left)

\* ParsedModules::sequence without the `.rev()` of its Ok arm.
sequence_unreversed(inputs, sorted) ==
    IF sorted.ok
    THEN [tag |-> "Ok",
          modules |-> remove_each(sorted.sequence, values(inputs),
                                  DOMAIN values(inputs))]
    ELSE [tag |-> "ImportCycle",
          modules |-> remove_each(
              find_cycle(sorted.node, sorted.node, module_graph(inputs), <<>>, {}).path,
              values(inputs), DOMAIN values(inputs))]

\* ParsedModules::sequence for the outcome `sorted` of the topological sort
sequence(inputs, sorted) ==
    IF sorted.ok
    THEN [tag |-> "Ok",
          modules |-> remove_each(Reverse(sorted.sequence), values(inputs),
                                  DOMAIN values(inputs))]
    ELSE [tag |-> "ImportCycle",
          modules |-> remove_each(
              find_cycle(sorted.node, sorted.node, module_graph(inputs), <<>>, {}).path,
              values(inputs), DOMAIN values(inputs))]

(***************************************************************************)
(* The project skeleton generator (crates/aiken/src/cmd/new.rs).  A path   *)
(* is the sequence of its components; the files of a disk map every path   *)
(* to Absent, to Dir or to the content of a regular file.  An              *)
(* operation of std::fs works on a world: the files, the log of the        *)
(* operations performed, the number of operations left before the          *)
(* operating system refuses one (0: none is refused) and the error that    *)
(* stopped the run.                                                        *)
(***************************************************************************)
Absent == <<"absent">>
Dir == <<"dir">>
\* the content of a regular file
File(contents) == <<"file">> \o contents

\* PathBuf::from(&package_name.repo)
root_of(package_name) == <<package_name.repo>>
\* Path::join
join(path, component) == Append(path, component)
\* the paths create_project touches, every one below the root
SkeletonPaths(package_name) ==
    LET root == root_of(package_name)
    IN  {root, join(root, "lib"), join(join(root, "lib"), package_name.repo),
         join(root, "validators"), join(root, "README.md"),
         join(root, "aiken.toml"), join(root, ".gitignore")}
\* Path::exists
exists(files, path) == path \in DOMAIN files /\ files[path] # Absent
\* the directories from the first component down to the path
Ancestors(path) == {SubSeq(path, 1, n) : n \in 1..Len(path)}

World(files, refuse_at) ==
    [files |-> files, ops |-> <<>>, refuse_at |-> refuse_at, err |-> None]
\* the `?` after an operation: the next one runs only when none has failed
AndThen(world, F(_)) == IF world.err # None THEN world ELSE F(world)
\* one operation is handed to the operating system
Attempt(world, op, path) ==
    [world EXCEPT !.ops = Append(@, [op |-> op, path |-> path]),
                  !.refuse_at = IF @ > 0 THEN @ - 1 ELSE 0]
IoError(world, op, path) ==
    [Attempt(world, op, path) EXCEPT !.err = Some([tag |-> "Io", name |-> ""])]

\* fs::create_dir_all: every missing directory down to the path is made; a
\* regular file in the way is an error
create_dir_all(world, path) ==
    IF world.refuse_at = 1
           \/ \E p \in Ancestors(path) :
                 p \in DOMAIN world.files /\ world.files[p] \notin {Absent, Dir}
    THEN IoError(world, "create_dir_all", path)
    ELSE [Attempt(world, "create_dir_all", path) EXCEPT
            !.files = [p \in DOMAIN @ |-> IF p \in Ancestors(path) THEN Dir ELSE @[p]]]

\* fs::write: the file is created or replaced; its directory must be there
\* and the path must not be a directory
write(world, path, contents) ==
    IF world.refuse_at = 1
           \/ ~exists(world.files, SubSeq(path, 1, Len(path) - 1))
           \/ world.files[SubSeq(path, 1, Len(path) - 1)] # Dir
           \/ world.files[path] = Dir
    THEN IoError(world, "write", path)
    ELSE [Attempt(world, "write", path) EXCEPT !.files[path] = File(contents)]

\* create_lib_folder
create_lib_folder(world, root, package_name) ==
    AndThen(create_dir_all(world, join(root, "lib")),
            LAMBDA w : create_dir_all(w, join(join(root, "lib"), package_name.repo)))
\* create_validators_folder
create_validators_folder(world, root) == create_dir_all(world, join(root, "validators"))
\* readme
readme(world, root, project_name) ==
    write(world, join(root, "README.md"), <<"readme", project_name>>)
\* Config::default(package_name).save(&root)
save(world, root, package_name) ==
    write(world, join(root, "aiken.toml"), <<"config", package_name.owner, package_name.repo>>)
\* gitignore
gitignore(world, root) == write(world, join(root, ".gitignore"), <<"gitignore">>)

\* create_project without the test of the root.
create_project_over_existing(args, package_name, world) ==
    AndThen(AndThen(AndThen(AndThen(
        create_lib_folder(world, root_of(package_name), package_name),
        LAMBDA w : IF ~args.lib THEN create_validators_folder(w, root_of(package_name))
                   ELSE w),
        LAMBDA w : readme(w, root_of(package_name), package_name.repo)),
        LAMBDA w : save(w, root_of(package_name), package_name)),
        LAMBDA w : gitignore(w, root_of(package_name)))

\* create_project: the world it leaves; err is None for Ok(())
create_project(args, package_name, world) ==
    IF exists(world.files, root_of(package_name))
    THEN [world EXCEPT !.err = Some([tag |-> "ProjectExists", name |-> package_name.repo])]
    ELSE AndThen(AndThen(AndThen(AndThen(
        create_lib_folder(world, root_of(package_name), package_name),
        LAMBDA w : IF ~args.lib THEN create_validators_folder(w, root_of(package_name))
                   ELSE w),
        LAMBDA w : readme(w, root_of(package_name), package_name.repo)),
        LAMBDA w : save(w, root_of(package_name), package_name)),
        LAMBDA w : gitignore(w, root_of(package_name)))

\* no call of create_project yet
DiskIdle ==
    [args |-> [lib |-> FALSE], package_name |-> [owner |-> "", repo |-> ""],
     files |-> <<>>, done |-> FALSE, refuse_at |-> 0, world |-> World(<<>>, 0)]

(***************************************************************************)
(* The programs under compilation: a table of NumFuncs module functions    *)
(* and validator bodies, both drawn by index from small families.          *)
(***************************************************************************)
Lit == EInt(<<1>>)
Local(name) == EVar(name, ValueConstructor(IntT, LocalVariable))
FnRef(k) == EVar("f" \o ToString(k), ValueConstructor(FnT(IntT), ModuleFn(1, k, None)))
FuncKeys == {FunctionAccessKey(1, k) : k \in 1..NumFuncs}

\* operand 0 is a literal, operand k the reference to function k
Operand(i) == IF i = 0 THEN Lit ELSE FnRef(i)
\* the body of a function by two operand indices
FnBody(i, j) ==
    IF i = 0 /\ j = 0 THEN Lit ELSE EBinOp("AddInt", Operand(i), Operand(j), IntT)
Function(body) ==
    [body |-> body, arguments |-> << [arg_name |-> [tag |-> "Named", name |-> "a"]] >>]

\* a leaf (literal or function reference) or a call of a function on a literal
Mid(i) ==
    IF i <= NumFuncs THEN Operand(i)
    ELSE ECall(FnRef(i - NumFuncs), <<CallArg(Lit)>>, IntT)
MidIndex == 0..(2 * NumFuncs)
Shapes == {"Mid", "Call", "BinOp", "Sequence", "Assignment"}
Top(shape, i, j) ==
    CASE shape = "Mid" -> Mid(i)
      [] shape = "Call" -> ECall(Mid(i), <<CallArg(Mid(j))>>, IntT)
      [] shape = "BinOp" -> EBinOp("AddInt", Mid(i), Mid(j), IntT)
      [] shape = "Sequence" -> ESequence(<<Mid(i), Mid(j)>>)
      [] shape = "Assignment" ->
            ESequence(<<EAssignment(PVar("y"), Mid(i), "Let"), Mid(j)>>)

\* a binary operation on an operand and a binary operation on two of the above
NestedBodies ==
    {EBinOp("AddInt", Operand(i), EBinOp("AddInt", Mid(j), Mid(k), IntT), IntT) :
        i \in 0..NumFuncs, j \in MidIndex, k \in MidIndex}

\* a local variable of a given type
LocalOf(name, tipo) == EVar(name, ValueConstructor(tipo, LocalVariable))

\* a record pattern on the constructor Datum naming the fields of the given
\* labels; `names[i]` is the variable bound to the field `labels[i]`
DatumFields == [l \in {"fa", "fb", "fc", "fd"} |->
                   CHOOSE i \in 0..3 : DatumFieldLabels[i + 1] = l]
DatumRecordPattern(labels, names) ==
    PConstructor(TRUE, "Datum",
                 [i \in 1..Len(labels) |-> PatternArg(Some(labels[i]), PVar(names[i]))],
                 Some([fields |-> DatumFields]), DatumT)
\* a positional pattern on a constructor without fields
NullaryPattern(constr_name) == PConstructor(FALSE, constr_name, <<>>, None, DatumT)

\* expressions of every variant build_ir lowers, and two it does not
Exprs ==
    << Lit,
       EString("s"),
       EByteArray(<<1>>),
       ESequence(<<Lit, Lit>>),
       EPipeline(<<LocalOf("x", IntT), Lit>>),
       LocalOf("x", IntT),
       EList(<<Lit, Lit>>, None, ListT(IntT)),
       EList(<<Lit>>, Some(LocalOf("xs", ListT(IntT))), ListT(IntT)),
       ECall(FnRef(1), <<CallArg(Lit)>>, IntT),
       EBinOp("AddInt", Lit, ECall(FnRef(1), <<CallArg(Lit)>>, IntT), IntT),
       ESequence(<<EAssignment(PVar("y"), Lit, "Let"), LocalOf("y", IntT)>>),
       ESequence(<<EAssignment(PList(<<PVar("a"), PVar("b")>>, Some(PVar("rest"))),
                               LocalOf("xs", ListT(IntT)), "Let"),
                   LocalOf("a", IntT)>>),
       ESequence(<<EAssignment(PList(<<PVar("a"), PList(<<PVar("b")>>, None)>>, None),
                               LocalOf("xss", ListT(ListT(IntT))), "Let"),
                   LocalOf("b", IntT)>>),
       EWhen(<<LocalOf("x", IntT)>>,
             <<Clause(<<PInt(<<1>>)>>, Lit), Clause(<<PInt(<<2>>)>>, EInt(<<2>>))>>, IntT),
       EWhen(<<LocalOf("d", DatumT)>>,
             <<Clause(<<DatumRecordPattern(<<"fa", "fc">>, <<"a", "c">>)>>,
                      LocalOf("a", IntT)),
               Clause(<<NullaryPattern("Nothing")>>, Lit)>>, IntT),
       EWhen(<<LocalOf("x", IntT)>>,
             <<Clause(<<PInt(<<1>>)>>, Lit), Clause(<<PDiscard>>, Lit)>>, IntT),
       ERecordAccess(LocalOf("d", DatumT), 1, ByteArrayT),
       EModuleSelect(2, [tag |-> "Fn", name |-> 1, builtin |-> Some("AddInteger")],
                     FnT(IntT)),
       ESequence(<<EAssignment(PDiscard, Lit, "Let"), Lit>>),
       EUnsupported("Fn") >>

(***************************************************************************)
(* The caller of the code generator.                                       *)
(***************************************************************************)
NoCall == [op |-> "", body |-> Lit, arguments |-> <<>>, panic |-> "", cache |-> <<>>,
           n |-> 0, arg_stack |-> <<>>, program |-> None]
ProjectIdle == [inputs |-> <<>>, done |-> FALSE, origin |-> None,
                result |-> [tag |-> "", modules |-> <<>>]]
TwinIdle == [done |-> FALSE, e |-> 0, s1 |-> <<>>, s2 |-> <<>>, g1 |-> 0, g2 |-> 0,
             ir1 |-> <<>>, ir2 |-> <<>>, panic1 |-> "", panic2 |-> ""]
SynthIdle == [done |-> FALSE, kind |-> "", names |-> 0, tail |-> FALSE, len |-> 0,
              fields |-> {}, record |-> FALSE, probe |-> 0, g |-> 0,
              result |-> VErr, panic |-> ""]

\* lines 67-70 of generate: the body is lowered under the scope [id_gen.next()]
BuildIr(body) ==
    /\ phase = "new"
    /\ LET r == build_ir(IdAdvance(gen), body, ir_stack, <<IdNext(gen)>>) IN
         /\ gen' = r.self
         /\ ir_stack' = r.ir_stack
         /\ phase' = IF r.panic = "" THEN "built" ELSE "aborted"
         /\ call' = [NoCall EXCEPT !.op = "build_ir", !.body = body, !.panic = r.panic]
    /\ UNCHANGED <<lca, functions, twin, synth, project, disk>>

\* line 74 of generate: the lowered body is hoisted
DefineIr ==
    /\ phase = "built"
    /\ LET r == define_ir(gen, ir_stack, 0)
           w == define_ir_walk(Walk(gen, <<>>, <<>>, <<>>, ""), ir_stack, Len(ir_stack))
       IN
         /\ gen' = r.self
         /\ ir_stack' = r.ir_stack
         /\ phase' = IF r.panic = "" THEN "hoisted" ELSE "aborted"
         /\ call' = [call EXCEPT !.op = "define_ir", !.panic = r.panic,
                                 !.cache = w.defined_func_and_calls]
    /\ UNCHANGED <<lca, functions, twin, synth, project, disk>>

InitHoist ==
    /\ lca = LcaIdle
    /\ \E b \in [1..NumFuncs -> (0..NumFuncs) \X (0..NumFuncs)] :
          functions = [key \in FuncKeys |->
                          Function(FnBody(b[key.function_name][1],
                                          b[key.function_name][2]))]
    /\ gen = NewCodeGenerator
    /\ ir_stack = <<>>
    /\ phase = "new"
    /\ call = NoCall
    /\ twin = TwinIdle
    /\ synth = SynthIdle
    /\ project = ProjectIdle
    /\ disk = DiskIdle

NextHoist ==
    \/ \E shape \in Shapes, i \in MidIndex, j \in MidIndex :
          (shape = "Mid" => j = 0) /\ BuildIr(Top(shape, i, j))
    \/ \E body \in NestedBodies : BuildIr(body)
    \/ DefineIr

SpecHoist == InitHoist /\ [][NextHoist]_vars

\* the validator bodies compiled one after the other by one code generator:
\* a leaf, a call, or a binary operation on two of them
SharedBody(i, j) == IF j = 0 THEN Mid(i) ELSE EBinOp("AddInt", Mid(i), Mid(j), IntT)

\* lines 67-74 of generate for the next validator body: the body is lowered
\* into a vector of its own under the scope [id_gen.next()] and hoisted
HoistBody(body) ==
    /\ phase \in {"new", "hoisted first"}
    /\ LET r == Let(build_ir(IdAdvance(gen), body, <<>>, <<IdNext(gen)>>),
                    LAMBDA built :
                        IF built.panic # "" THEN built
                        ELSE define_ir(built.self, built.ir_stack, 0))
       IN
         /\ gen' = r.self
         /\ ir_stack' = r.ir_stack
         /\ phase' = IF r.panic # "" THEN "aborted"
                     ELSE IF phase = "new" THEN "hoisted first" ELSE "hoisted second"
         /\ call' = [NoCall EXCEPT !.op = "hoist", !.body = body, !.panic = r.panic,
                                   !.n = call.n + 1]
    /\ UNCHANGED <<lca, functions, twin, synth, project, disk>>

\* a table in which every function is a literal or adds a literal to a call
\* of one function of the table
InitShared ==
    /\ lca = LcaIdle
    /\ \E b \in [1..NumFuncs -> 0..NumFuncs] :
          functions = [key \in FuncKeys |-> Function(FnBody(0, b[key.function_name]))]
    /\ gen = NewCodeGenerator
    /\ ir_stack = <<>>
    /\ phase = "new"
    /\ call = NoCall
    /\ twin = TwinIdle
    /\ synth = SynthIdle
    /\ project = ProjectIdle
    /\ disk = DiskIdle

SharedBodies == {SharedBody(i, j) : i \in MidIndex, j \in MidIndex}

NextShared == \E body \in SharedBodies : HoistBody(body)

SpecShared == InitShared /\ [][NextShared]_vars

\* two lowerings of one expression, each by a code generator of its own
LowerTwice ==
    /\ ~twin.done
    /\ LET first == build_ir([NewCodeGenerator EXCEPT !.id_gen = twin.g1],
                             Exprs[twin.e], <<>>, twin.s1)
           second == build_ir([NewCodeGenerator EXCEPT !.id_gen = twin.g2],
                              Exprs[twin.e], <<>>, twin.s2)
       IN  twin' = [twin EXCEPT !.done = TRUE,
                                !.ir1 = first.ir_stack, !.panic1 = first.panic,
                                !.ir2 = second.ir_stack, !.panic2 = second.panic]
    /\ UNCHANGED <<lca, functions, gen, ir_stack, phase, call, synth, project, disk>>

InitTwin ==
    /\ lca = LcaIdle
    /\ functions = [key \in FuncKeys |-> Function(Lit)]
    /\ gen = NewCodeGenerator
    /\ ir_stack = <<>>
    /\ phase = "new"
    /\ call = NoCall
    /\ \E e \in 1..Len(Exprs), s1 \in Paths, s2 \in Paths,
          g1 \in 0..MaxIdStart, g2 \in 0..MaxIdStart :
          twin = [TwinIdle EXCEPT !.e = e, !.s1 = s1, !.s2 = s2, !.g1 = g1, !.g2 = g2]
    /\ synth = SynthIdle
    /\ project = ProjectIdle
    /\ disk = DiskIdle

NextTwin == LowerTwice

SpecTwin == InitTwin /\ [][NextTwin]_vars

\* the names n0, n1, ... of a list pattern and the list it is matched against
ListNames(k) == [i \in 1..k |-> "n" \o ToString(i - 1)]
ListItems(len) == [i \in 1..len |-> CInteger(10 + (i - 1))]
\* the list pattern of k names: with a tail, the last name is the tail's
ListPattern(k, tail) ==
    LET elems == [i \in 1..k |-> PVar(ListNames(k)[i])] IN
    IF tail THEN PList(SubSeq(elems, 1, k - 1), Some(elems[k])) ELSE PList(elems, None)

\* a value of the constructor Datum, one field of each unwrapper class
DatumValue ==
    DConstr(2, << DBigInt(7), DBoundedBytes(<<8>>), DArray(<<DBigInt(9)>>),
                  DConstr(0, <<>>) >>)
\* the field positions (from 0) of `fields` in ascending order
RECURSIVE Ascending(_)
Ascending(fields) ==
    IF fields = {} THEN <<>>
    ELSE LET least == CHOOSE i \in fields : \A j \in fields : i <= j
         IN  <<least>> \o Ascending(fields \ {least})
FieldName(i) == "v" \o ToString(i)
\* the pattern on Datum that names the fields at the positions `fields`:
\* by label, or by position with the other fields discarded
DatumPattern(fields, record) ==
    IF record
    THEN LET positions == Ascending(fields) IN
         DatumRecordPattern([k \in 1..Len(positions) |-> DatumFieldLabels[positions[k] + 1]],
                            [k \in 1..Len(positions) |-> FieldName(positions[k])])
    ELSE PConstructor(FALSE, "Datum",
                      [k \in 1..Len(DatumFieldTypes) |->
                          PatternArg(None, IF (k - 1) \in fields THEN PVar(FieldName(k - 1))
                                           ELSE PDiscard)],
                      None, DatumT)

\* a list pattern is lowered, its ListAccessor node is reduced over a body
\* that reads one of the names, and the term is evaluated
AccessList ==
    /\ ~synth.done
    /\ synth.kind = "list"
    /\ LET self == [NewCodeGenerator EXCEPT !.id_gen = synth.g]
           lowered == pattern_ir(self, ListPattern(synth.names, synth.tail),
                                 <<>>, <<>>, <<>>)
           reduced == gen_uplc(lowered.self, lowered.pattern_vec[1],
                               << TVar(Name(ListNames(synth.names)[synth.probe + 1])),
                                  TConstant(CProtoList("Integer", ListItems(synth.len))) >>)
       IN  synth' = [synth EXCEPT
                        !.done = TRUE,
                        !.panic = reduced.panic,
                        !.result = IF reduced.panic # "" THEN VErr
                                   ELSE Eval(reduced.arg_stack[1], <<>>)]
    /\ UNCHANGED <<lca, functions, gen, ir_stack, phase, call, twin, project, disk>>

\* a constructor pattern is lowered, its FieldsExpose node is reduced over a
\* body that reads one of the names, and the term is evaluated under the
\* binding of constr_fields_exposer
ExposeFields ==
    /\ ~synth.done
    /\ synth.kind = "fields"
    /\ LET self == [NewCodeGenerator EXCEPT !.id_gen = synth.g]
           lowered == pattern_ir(self, DatumPattern(synth.fields, synth.record),
                                 <<>>, <<>>, <<>>)
           reduced == gen_uplc(lowered.self, lowered.pattern_vec[2],
                               << TVar(Name(FieldName(synth.probe))),
                                  TConstant(CData(DatumValue)) >>)
       IN  synth' = [synth EXCEPT
                        !.done = TRUE,
                        !.panic = IF lowered.panic # "" THEN lowered.panic
                                  ELSE reduced.panic,
                        !.result = IF lowered.panic # "" \/ reduced.panic # "" THEN VErr
                                   ELSE Eval(constr_fields_exposer(reduced.arg_stack[1]),
                                             <<>>)]
    /\ UNCHANGED <<lca, functions, gen, ir_stack, phase, call, twin, project, disk>>

\* the list pattern of k named elements and a discarded tail: [n0, .., ..]
DiscardTailPattern(k) == PList([i \in 1..k |-> PVar(ListNames(k)[i])], Some(PDiscard))

\* a list pattern with a discarded tail is lowered, its ListAccessor node is
\* reduced over a body that reads one of the names, and the term is evaluated
AccessListDiscardTail ==
    /\ ~synth.done
    /\ synth.kind = "discard tail"
    /\ LET self == [NewCodeGenerator EXCEPT !.id_gen = synth.g]
           lowered == pattern_ir(self, DiscardTailPattern(synth.names), <<>>, <<>>, <<>>)
           reduced == gen_uplc(lowered.self, lowered.pattern_vec[1],
                               << TVar(Name(ListNames(synth.names)[synth.probe + 1])),
                                  TConstant(CProtoList("Integer", ListItems(synth.len))) >>)
       IN  synth' = [synth EXCEPT
                        !.done = TRUE,
                        !.panic = reduced.panic,
                        !.result = IF reduced.panic # "" THEN VErr
                                   ELSE Eval(reduced.arg_stack[1], <<>>)]
    /\ UNCHANGED <<lca, functions, gen, ir_stack, phase, call, twin, project, disk>>

InitSynth ==
    /\ lca = LcaIdle
    /\ functions = [key \in FuncKeys |-> Function(Lit)]
    /\ gen = NewCodeGenerator
    /\ ir_stack = <<>>
    /\ phase = "new"
    /\ call = NoCall
    /\ twin = TwinIdle
    /\ project = ProjectIdle
    /\ disk = DiskIdle
    /\ \/ \E k \in 1..MaxNames, tail \in BOOLEAN, len \in 1..MaxListLen,
             probe \in 0..(MaxNames - 1), g \in 0..MaxIdStart :
             /\ k <= len /\ probe < k
             /\ synth = [SynthIdle EXCEPT !.kind = "list", !.names = k, !.tail = tail,
                                          !.len = len, !.probe = probe, !.g = g]
       \/ \E k \in 1..MaxNames, len \in 1..MaxListLen,
             probe \in 0..(MaxNames - 1), g \in 0..MaxIdStart :
             /\ k <= len /\ probe < k
             /\ synth = [SynthIdle EXCEPT !.kind = "discard tail", !.names = k,
                                          !.tail = TRUE, !.len = len, !.probe = probe,
                                          !.g = g]
       \/ \E fields \in SUBSET (0..(Len(DatumFieldTypes) - 1)), record \in BOOLEAN,
             probe \in 0..(Len(DatumFieldTypes) - 1), g \in 0..MaxIdStart :
             /\ probe \in fields
             /\ synth = [SynthIdle EXCEPT !.kind = "fields", !.fields = fields,
                                          !.record = record, !.probe = probe, !.g = g]

NextSynth ==
    \/ AccessList
    \/ ExposeFields
    \/ AccessListDiscardTail

SpecSynth == InitSynth /\ [][NextSynth]_vars

\* the arguments of the validator under compilation
ValidatorArgs == << [arg_name |-> [tag |-> "Named", name |-> "ctx"]] >>
\* TypedArg with a named and with a discarded name
NamedArg(name) == [arg_name |-> [tag |-> "Named", name |-> name]]
DiscardArg(name) == [arg_name |-> [tag |-> "Discard", name |-> name]]
\* the argument lists handed to generate
ArgLists ==
    << <<>>,
       ValidatorArgs,
       <<NamedArg("x")>>,
       <<NamedArg("datum"), DiscardArg("_redeemer"), NamedArg("ctx")>> >>
\* `when b is { True -> 1; False -> 1 }` over the Bool subject b
BoolWhen ==
    EWhen(<<LocalOf("b", BoolT)>>,
          <<Clause(<<PConstructor(FALSE, "True", <<>>, None, BoolT)>>, Lit),
            Clause(<<PConstructor(FALSE, "False", <<>>, None, BoolT)>>, Lit)>>, IntT)
\* `when d is { Unit -> 1; Nothing -> 1 }` over the Datum subject d
NullaryWhen ==
    EWhen(<<LocalOf("d", DatumT)>>,
          <<Clause(<<NullaryPattern("Unit")>>, Lit),
            Clause(<<NullaryPattern("Nothing")>>, Lit)>>, IntT)
\* the expression variants build_ir has no lowering for
UnsupportedExprs ==
    << EUnsupported("Fn"), EUnsupported("If"), EUnsupported("Trace"),
       EUnsupported("Todo"), EUnsupported("RecordUpdate"), EUnsupported("Negate"),
       EUnsupported("Tuple") >>
\* `l == r` over the Bool variables l and r
BoolEq == EBinOp("Eq", LocalOf("l", BoolT), LocalOf("r", BoolT), BoolT)
\* the list literals [1, 2] and [x, 2]: all elements constant, and not
ConstantList == EList(<<Lit, EInt(<<2>>)>>, None, ListT(IntT))
VariableList == EList(<<LocalOf("x", IntT), EInt(<<2>>)>>, None, ListT(IntT))
\* the bodies handed to generate: Exprs, a sequence ending in an assignment,
\* the literal 42, two whens over constructors, an equality of two Bools, two
\* list literals and the unsupported variants
Bodies ==
    Exprs \o << ESequence(<<Lit, EAssignment(PVar("y"), Lit, "Let")>>),
                EInt(<<4, 2>>), BoolWhen, NullaryWhen, BoolEq, ConstantList,
                VariableList >> \o UnsupportedExprs

\* one call of generate on the code generator; a panic ends the process
Generate(body, arguments) ==
    /\ phase \in {"new", "generated"}
    /\ call.n < MaxCalls
    /\ LET r == generate(gen, body, arguments) IN
         /\ gen' = r.self
         /\ ir_stack' = r.ir
         /\ phase' = IF r.panic = "" THEN "generated" ELSE "aborted"
         /\ call' = [NoCall EXCEPT !.op = "generate", !.body = body,
                                   !.arguments = arguments, !.panic = r.panic,
                                   !.n = call.n + 1, !.arg_stack = r.arg_stack,
                                   !.program = r.program]
    /\ UNCHANGED <<lca, functions, twin, synth, project, disk>>

InitGen ==
    /\ lca = LcaIdle
    /\ functions = [key \in FuncKeys |-> Function(Lit)]
    /\ gen = NewCodeGenerator
    /\ ir_stack = <<>>
    /\ phase = "new"
    /\ call = NoCall
    /\ twin = TwinIdle
    /\ synth = SynthIdle
    /\ project = ProjectIdle
    /\ disk = DiskIdle

NextGen ==
    \E e \in 1..Len(Bodies), a \in 1..Len(ArgLists) : Generate(Bodies[e], ArgLists[a])

SpecGen == InitGen /\ [][NextGen]_vars

(***************************************************************************)
(* The caller of generate on when-expressions: the subject is the          *)
(* validator argument x, the body of the i-th clause the local variable    *)
(* b<i>, the heads integers or constructors without fields.                *)
(***************************************************************************)
BranchName(i) == "b" \o ToString(i)
\* the heads of the clauses of a when, as numbers
HeadLists == UNION {[1..k -> 1..MaxHead] : k \in 2..MaxClauses}
\* `when x is { h1 -> b1; ..; hk -> bk }` over the Int subject x
IntWhen(heads) ==
    EWhen(<<LocalOf("x", IntT)>>,
          [i \in 1..Len(heads) |->
              Clause(<<PInt(to_string(heads[i]))>>, LocalOf(BranchName(i), IntT))],
          IntT)
\* the same over the Datum subject x; the head h is the h-th constructor
NullaryHeadWhen(heads) ==
    EWhen(<<LocalOf("x", DatumT)>>,
          [i \in 1..Len(heads) |->
              Clause(<<NullaryPattern(DatumType.constructors[heads[i]].name)>>,
                     LocalOf(BranchName(i), IntT))],
          IntT)
WhenBodies ==
    {IntWhen(heads) : heads \in HeadLists}
        \cup {NullaryHeadWhen(heads) :
                 heads \in {h \in HeadLists : \A i \in 1..Len(h) : h[i] <= 2}}
WhenArgs == <<NamedArg("x")>>

NextWhen == \E body \in WhenBodies : Generate(body, WhenArgs)

SpecWhen == InitGen /\ [][NextWhen]_vars

(***************************************************************************)
(* The caller of ParsedModules::sequence.                                  *)
(***************************************************************************)
ModuleNames == {"a", "b", "c"}
\* the dependency lists of a module: up to MaxDeps different names
DepLists ==
    UNION {{deps \in [1..n -> ModuleNames] : \A i, j \in 1..n : deps[i] = deps[j] => i = j} :
              n \in 0..MaxDeps}
\* the parsed modules of a project in an iteration order of the map: up to
\* MaxModules modules of different names
ModuleInputs ==
    UNION {{inputs \in [1..n -> {deps_for_graph(name, deps) :
                                    name \in ModuleNames, deps \in DepLists}] :
               \A i, j \in 1..n : inputs[i].name = inputs[j].name => i = j} :
              n \in 0..MaxModules}

\* one call of sequence
Sequence ==
    /\ ~project.done
    /\ \E sorted \in toposort(module_graph(project.inputs)) :
          project' = [project EXCEPT
                        !.done = TRUE,
                        !.origin = IF sorted.ok THEN None ELSE Some(sorted.node),
                        !.result = sequence(project.inputs, sorted)]
    /\ UNCHANGED <<lca, functions, gen, ir_stack, phase, call, twin, synth, disk>>

InitModules ==
    /\ lca = LcaIdle
    /\ functions = [key \in FuncKeys |-> Function(Lit)]
    /\ gen = NewCodeGenerator
    /\ ir_stack = <<>>
    /\ phase = "new"
    /\ call = NoCall
    /\ twin = TwinIdle
    /\ synth = SynthIdle
    /\ \E inputs \in ModuleInputs : project = [ProjectIdle EXCEPT !.inputs = inputs]
    /\ disk = DiskIdle

NextModules == Sequence

SpecModules == InitModules /\ [][NextModules]_vars

(***************************************************************************)
(* The caller of create_project.                                           *)
(***************************************************************************)
PackageNames == {[owner |-> "aiken-lang", repo |-> repo] : repo \in {"foo", "bar"}}
\* the disks create_project can find: below a root that is a directory any
\* of its paths may be there, left by an earlier project or by the user
Disks(package_name) ==
    LET root == root_of(package_name)
        lib == join(root, "lib")
        files == {"README.md", "aiken.toml", ".gitignore"}
    IN  {[p \in SkeletonPaths(package_name) |-> Absent],
         [p \in SkeletonPaths(package_name) |-> IF p = root THEN File(<<"old">>) ELSE Absent]}
        \cup
        {[p \in SkeletonPaths(package_name) |->
             IF p = root THEN Dir
             ELSE IF p = lib THEN lib_entry
             ELSE IF p = join(lib, package_name.repo)
                  THEN (IF lib_entry = Dir /\ nested THEN Dir ELSE Absent)
             ELSE IF p = join(root, "validators")
                  THEN (IF validators THEN Dir ELSE Absent)
             ELSE IF p[2] \in written THEN File(<<"old">>) ELSE Absent] :
           lib_entry \in {Absent, Dir, File(<<"old">>)}, nested \in BOOLEAN,
           validators \in BOOLEAN, written \in SUBSET files}

\* one call of create_project
CreateProject ==
    /\ ~disk.done
    /\ disk' = [disk EXCEPT
                  !.done = TRUE,
                  !.world = create_project(disk.args, disk.package_name,
                                           World(disk.files, disk.refuse_at))]
    /\ UNCHANGED <<lca, functions, gen, ir_stack, phase, call, twin, synth, project>>

InitSkeleton ==
    /\ lca = LcaIdle
    /\ functions = [key \in FuncKeys |-> Function(Lit)]
    /\ gen = NewCodeGenerator
    /\ ir_stack = <<>>
    /\ phase = "new"
    /\ call = NoCall
    /\ twin = TwinIdle
    /\ synth = SynthIdle
    /\ project = ProjectIdle
    /\ \E package_name \in PackageNames, lib \in BOOLEAN, refuse_at \in 0..MaxRefuseAt :
          \E files \in Disks(package_name) :
             disk = [DiskIdle EXCEPT !.args = [lib |-> lib],
                                     !.package_name = package_name,
                                     !.files = files,
                                     !.refuse_at = refuse_at,
                                     !.world = World(files, refuse_at)]

NextSkeleton == CreateProject

SpecSkeleton == InitSkeleton /\ [][NextSkeleton]_vars

InitScope ==
    /\ \E a \in Paths, b \in Paths, c \in Paths :
          lca = [LcaIdle EXCEPT !.a = a, !.b = b, !.c = c]
    /\ functions = [key \in FuncKeys |-> Function(Lit)]
    /\ gen = NewCodeGenerator
    /\ ir_stack = <<>>
    /\ phase = "new"
    /\ call = NoCall
    /\ twin = TwinIdle
    /\ synth = SynthIdle
    /\ project = ProjectIdle
    /\ disk = DiskIdle

NextScope == ComputeLca

SpecScope == InitScope /\ [][NextScope]_vars

(***************************************************************************)
(* Properties of the scope utility.                                        *)
(***************************************************************************)
\* C7: get_common_ancestor is idempotent and associative: lca(a,a) = a and
\* lca(lca(a,b),c) = lca(a,lca(b,c)) for all paths a, b, c.
LcaIdempotentAssociative ==
    lca.done => /\ lca.aa = lca.a
                /\ lca.ab_c = lca.a_bc

\* three pairwise different paths with a non-root common ancestor were combined
LcaThreePathsCombined ==
    /\ lca.done
    /\ lca.a # lca.b /\ lca.b # lca.c /\ lca.a # lca.c
    /\ lca.ab_c # <<>>
    /\ lca.ab # lca.a /\ lca.ab # lca.b

\* C8: get_common_ancestor(a, b) is the longest common prefix of a and b: a
\* prefix of both, no longer path is a prefix of both, the shorter path when
\* one is a prefix of the other (the root included), and a itself when a = b.
LcaIsLongestCommonPrefix ==
    lca.done =>
        /\ IsPrefix(lca.ab, lca.a)
        /\ IsPrefix(lca.ab, lca.b)
        /\ \A p \in Paths :
              (IsPrefix(p, lca.a) /\ IsPrefix(p, lca.b)) => Len(p) <= Len(lca.ab)
        /\ (IsPrefix(lca.a, lca.b) => lca.ab = lca.a)
        /\ (IsPrefix(lca.b, lca.a) => lca.ab = lca.b)
        /\ (lca.a = lca.b => lca.ab = lca.a)

\* two paths that agree on a first id and then part ways were combined
LcaOfDivergingPaths ==
    /\ lca.done
    /\ Len(lca.a) = MaxPathLen /\ Len(lca.b) = MaxPathLen
    /\ lca.a # lca.b
    /\ Len(lca.ab) = MaxPathLen - 1

(***************************************************************************)
(* Properties of the lowering.                                             *)
(***************************************************************************)
\* C9: two lowerings of one expression under any two starting scopes and any
\* two states of the id generator emit sequences of the same length with the
\* same variant tag at every position (and abort alike where they abort).
LoweringShapeIndependentOfScope ==
    twin.done => /\ twin.panic1 = twin.panic2
                 /\ Len(twin.ir1) = Len(twin.ir2)
                 /\ Tags(twin.ir1) = Tags(twin.ir2)

\* an expression was lowered to four nodes or more under two different
\* scopes, one of them the root, from two different counters
LoweredUnderDifferentScopes ==
    /\ twin.done
    /\ twin.panic1 = ""
    /\ twin.s1 = <<>> /\ twin.s2 # <<>>
    /\ twin.g1 # twin.g2
    /\ Len(twin.ir1) >= 4
    /\ \A i \in 1..Len(twin.ir1) : twin.ir1[i].scope # twin.ir2[i].scope

(***************************************************************************)
(* Properties of function hoisting.                                        *)
(***************************************************************************)
\* the Var node refers to the module function (no builtin) of the DefineFunc node
RefersTo(var, def) ==
    /\ var.tag = "Var"
    /\ var.constructor.variant.tag = "ModuleFn"
    /\ var.constructor.variant.builtin = None
    /\ var.constructor.variant.module = def.module_name
    /\ var.constructor.variant.fname = def.func_name

\* the scope paths of the Var nodes of `stack` that refer to `def`, in order
RECURSIVE UseScopes(_, _)
UseScopes(stack, def) ==
    IF stack = <<>> THEN <<>>
    ELSE IF RefersTo(Head(stack), def)
    THEN <<Head(stack).scope>> \o UseScopes(Tail(stack), def)
    ELSE UseScopes(Tail(stack), def)

\* the common ancestor of a non-empty sequence of paths
RECURSIVE LcaOfAll(_)
LcaOfAll(scopes) ==
    IF Len(scopes) = 1 THEN scopes[1]
    ELSE get_common_ancestor(scopes[1], LcaOfAll(Tail(scopes)))

\* C1: after define_ir, the scope of every DefineFunc node of a function is a
\* prefix of the scope of every Var node of the sequence that refers to it.
DefineFuncScopeDominatesUses ==
    phase = "hoisted" =>
        \A i \in 1..Len(ir_stack), j \in 1..Len(ir_stack) :
            (ir_stack[i].tag = "DefineFunc" /\ RefersTo(ir_stack[j], ir_stack[i]))
                => IsPrefix(ir_stack[i].scope, ir_stack[j].scope)

\* C2: after define_ir, the scope of every DefineFunc node of a function equals
\* the lowest common ancestor of the scopes of all Var nodes that refer to it.
DefineFuncScopeIsLca ==
    phase = "hoisted" =>
        \A i \in 1..Len(ir_stack) :
            (ir_stack[i].tag = "DefineFunc" /\ UseScopes(ir_stack, ir_stack[i]) # <<>>)
                => ir_stack[i].scope = LcaOfAll(UseScopes(ir_stack, ir_stack[i]))

\* C3: every function cached by define_ir has recursive = TRUE exactly when its
\* own key is among the module-function references collected from its body.
RecursiveIffSelfReference ==
    (phase = "hoisted" /\ call.op = "define_ir") =>
        \A n \in 1..Len(call.cache) :
            call.cache[n].value.recursive
                <=> (\E k \in 1..Len(FuncCalls(call.cache[n].value.ir)) :
                        FuncCalls(call.cache[n].value.ir)[k] = call.cache[n].key)

\* the Var node refers to a module function that is no builtin
IsFunctionUse(node) ==
    /\ node.tag = "Var"
    /\ node.constructor.variant.tag = "ModuleFn"
    /\ node.constructor.variant.builtin = None

\* C11: every generate call on a body that calls a module function returns,
\* and the hoisted IR of that body holds a DefineFunc node of the function
\* whose scope is a common ancestor of the body's references to it; so it is
\* for each of two bodies compiled one after the other by one code generator.
GenerateDefinesSharedFunction ==
    call.op = "generate" =>
        \A j \in 1..Len(ir_stack) :
            IsFunctionUse(ir_stack[j]) =>
                /\ call.panic = ""
                /\ \E i \in 1..Len(ir_stack) :
                      /\ ir_stack[i].tag = "DefineFunc"
                      /\ RefersTo(ir_stack[j], ir_stack[i])
                      /\ IsPrefix(ir_stack[i].scope, ir_stack[j].scope)

\* the cached components of the function of the DefineFunc node, as a sequence
\* of length 0 or 1
ComponentsOf(cache, def) ==
    SelectSeq(cache, LAMBDA entry :
        entry.key = FunctionAccessKey(def.module_name, def.func_name))

\* C13: define_ir completes without aborting, and for every function it has
\* placed, every other function referenced from that function's body has a
\* DefineFunc node in the hoisted IR as well; so it is when the dependency is
\* referenced from function bodies only or when two functions refer to each
\* other.
DependenciesHoistedWithFunction ==
    call.op = "define_ir" =>
        /\ call.panic = ""
        /\ \A i \in 1..Len(ir_stack) :
              ir_stack[i].tag = "DefineFunc" =>
                  \A c \in 1..Len(ComponentsOf(call.cache, ir_stack[i])) :
                      \A k \in 1..Len(ComponentsOf(call.cache, ir_stack[i])[c].value.dependencies) :
                          \E d \in 1..Len(ir_stack) :
                              /\ ir_stack[d].tag = "DefineFunc"
                              /\ FunctionAccessKey(ir_stack[d].module_name,
                                                   ir_stack[d].func_name)
                                     = ComponentsOf(call.cache, ir_stack[i])[c]
                                           .value.dependencies[k]

\* C12: over the define_ir invocations on one code generator, the nested ones
\* on dependency bodies included, no FunctionAccessKey has a DefineFunc node
\* inserted for it twice.
DefineFuncInsertedOnce ==
    \A m \in 1..Len(gen.define_func_log), n \in 1..Len(gen.define_func_log) :
        gen.define_func_log[m] = gen.define_func_log[n] => m = n

\* the second of two bodies refers to a function whose DefineFunc node was
\* inserted for the first, and two functions have had their nodes inserted
SecondBodyReusesDefinedFunction ==
    /\ phase = "hoisted second"
    /\ Len(gen.define_func_log) >= 2
    /\ \E j \in 1..Len(ir_stack) :
          /\ IsFunctionUse(ir_stack[j])
          /\ FunctionAccessKey(ir_stack[j].constructor.variant.module,
                               ir_stack[j].constructor.variant.fname)
                 \in gen.defined_functions
          /\ \A i \in 1..Len(ir_stack) :
                ir_stack[i].tag = "DefineFunc" => ~RefersTo(ir_stack[j], ir_stack[i])

(***************************************************************************)
(* Properties of the synthesis.                                            *)
(***************************************************************************)
\* the value the i-th name (from 0) of a list pattern of k names stands for
ExpectedElement(k, tail, len, i) ==
    IF tail /\ i = k - 1
    THEN VCon(CProtoList("Integer", SubSeq(ListItems(len), k, len)))
    ELSE VCon(ListItems(len)[i + 1])

\* C5: the term of a ListAccessor with k >= 1 names binds the i-th name to the
\* i-th element of a list of at least k elements, except that with a tail the
\* last name is bound to the remainder of the list from position k-1 on.
ListAccessorBindsElements ==
    (synth.done /\ synth.kind = "list") =>
        /\ synth.panic = ""
        /\ synth.result =
               ExpectedElement(synth.names, synth.tail, synth.len, synth.probe)

\* the field list of a constructor value advanced by i TailList steps
RECURSIVE Advanced(_, _)
Advanced(fields, i) ==
    IF i = 0 THEN fields ELSE Advanced(BuiltinApply("TailList", <<fields>>), i - 1)

\* the unwrapper of the field's type applied to HeadList of the field list of
\* DatumValue advanced by i TailList steps
ExpectedField(i) ==
    LET fields == BuiltinApply("SndPair",
                      <<BuiltinApply("UnConstrData", <<VCon(CData(DatumValue))>>)>>)
        head == BuiltinApply("HeadList", <<Advanced(fields, i)>>)
        tipo == DatumFieldTypes[i + 1]
    IN  IF is_int(tipo) THEN BuiltinApply("UnIData", <<head>>)
        ELSE IF is_bytearray(tipo) THEN BuiltinApply("UnBData", <<head>>)
        ELSE IF is_list(tipo) THEN BuiltinApply("UnListData", <<head>>)
        ELSE head

\* C6: the term of a FieldsExpose over ascending field indices binds the name
\* of field index i to the unwrapper of its type applied to HeadList of the
\* field list advanced by i TailList steps, for every set of field positions,
\* the ones that skip indices included.
FieldsExposeBindsFields ==
    (synth.done /\ synth.kind = "fields") =>
        /\ synth.panic = ""
        /\ synth.result = ExpectedField(synth.probe)

\* C4: the reduction of a lowered and hoisted IR sequence never pops an empty
\* argument stack and ends with exactly one term on the stack.
ReductionLeavesOneTerm ==
    call.op = "generate" =>
        /\ call.panic # EmptyPop
        /\ call.panic = "" => Len(call.arg_stack) = 1

\* the term of a program below the lambdas of the validator's arguments and
\* the final wrapper
RECURSIVE ProgramBody(_)
ProgramBody(term) ==
    IF term.tag = "Lambda" THEN ProgramBody(term.body)
    ELSE IF term.tag = "FinalWrapper" THEN term.term
    ELSE term

\* the body is wrapped in the bindings of constr_fields_exposer and
\* constr_get_field
IsWrapped(term) ==
    /\ term.tag = "Apply"
    /\ term.function.tag = "Lambda"
    /\ term.function.parameter_name.text = CONSTR_FIELDS_EXPOSER
    /\ term.function.body.tag = "Apply"
    /\ term.function.body.function.tag = "Lambda"
    /\ term.function.body.function.parameter_name.text = CONSTR_GET_FIELD

\* C10: over any sequence of generate calls on one code generator, a returned
\* program is wrapped in the field helpers if and only if a RecordAccess or
\* FieldsExpose node was emitted for the body of that call.
WrappedIffFieldAccessEmitted ==
    (call.op = "generate" /\ call.program # None) =>
        (IsWrapped(ProgramBody(call.program[1].term))
            <=> \E i \in 1..Len(ir_stack) :
                    ir_stack[i].tag \in {"RecordAccess", "FieldsExpose"})

\* the parameter text the program gives an argument of the validator
ArgumentText(arg) ==
    IF arg.arg_name.tag \in {"Named", "NamedLabeled"} THEN arg.arg_name.name ELSE "_"

\* the term below one lambda for each argument, the first argument outermost;
\* None when the term does not begin with these lambdas
RECURSIVE BelowArguments(_, _)
BelowArguments(term, arguments) ==
    IF arguments = <<>> THEN Some(term)
    ELSE IF term.tag = "Lambda"
            /\ term.parameter_name.text = ArgumentText(Head(arguments))
    THEN BelowArguments(term.body, Tail(arguments))
    ELSE None

\* the term with the uniques of its names set back to 0
RECURSIVE EraseUnique(_)
EraseUnique(term) ==
    CASE term.tag = "Var" -> TVar([term.name EXCEPT !.unique = 0])
      [] term.tag = "Lambda" ->
            TLambda([term.parameter_name EXCEPT !.unique = 0], EraseUnique(term.body))
      [] term.tag = "Apply" ->
            TApply(EraseUnique(term.function), EraseUnique(term.argument))
      [] term.tag \in {"Force", "Delay", "FinalWrapper"} ->
            [term EXCEPT !.term = EraseUnique(term.term)]
      [] OTHER -> term

\* C14: the term of a program returned by generate is one lambda for each
\* argument, the first argument outermost and a discarded argument named "_",
\* around final_wrapper of the reduced body, which is wrapped in the field
\* access helpers when the generator needs them; the version is (1, 0, 0).
GenerateAssemblesProgram ==
    (call.op = "generate" /\ call.program # None) =>
        /\ call.program[1].version = <<1, 0, 0>>
        /\ BelowArguments(call.program[1].term, call.arguments) # None
        /\ BelowArguments(call.program[1].term, call.arguments)[1].tag = "FinalWrapper"
        /\ EraseUnique(BelowArguments(call.program[1].term, call.arguments)[1].term)
               = IF gen.needs_field_access
                 THEN constr_fields_exposer(constr_get_field(call.arg_stack[1]))
                 ELSE call.arg_stack[1]

\* a program was returned for three arguments, the second of them discarded,
\* by a generator that needs the field access helpers
ProgramOfThreeArguments ==
    /\ call.op = "generate"
    /\ call.program # None
    /\ Len(call.arguments) = 3
    /\ call.arguments[2].arg_name.tag = "Discard"
    /\ gen.needs_field_access

\* generate was called for the validator with the single argument x and the
\* body 42
LiteralValidator ==
    /\ call.op = "generate"
    /\ call.body = EInt(<<4, 2>>)
    /\ call.arguments = <<NamedArg("x")>>

\* C15: for the validator with the single argument x and the body 42, generate
\* returns a program of version (1, 0, 0) whose term is the lambda of x around
\* final_wrapper of the constant 42, the constant being wrapped in the field
\* access helpers when the generator needs them: the argument lambda encloses
\* final_wrapper.
LambdaEnclosesFinalWrapper ==
    LiteralValidator =>
        /\ call.program # None
        /\ call.program[1].version = <<1, 0, 0>>
        /\ call.program[1].term.tag = "Lambda"
        /\ call.program[1].term.parameter_name.text = "x"
        /\ call.program[1].term.body.tag = "FinalWrapper"
        /\ EraseUnique(call.program[1].term.body.term)
               = IF gen.needs_field_access
                 THEN constr_fields_exposer(constr_get_field(TConstant(CInteger(42))))
                 ELSE TConstant(CInteger(42))

\* C15 as stated: the term is final_wrapper applied to the lambda of x around
\* the constant 42, final_wrapper enclosing the argument lambda.
FinalWrapperEnclosesLambda ==
    LiteralValidator =>
        /\ call.program # None
        /\ call.program[1].version = <<1, 0, 0>>
        /\ EraseUnique(call.program[1].term)
               = final_wrapper(TLambda(Name("x"), TConstant(CInteger(42))))

\* the program of the validator with the argument x and the body 42 was
\* returned by a generator that needs no field access helpers
LiteralProgramReturned ==
    /\ LiteralValidator
    /\ call.program # None
    /\ ~gen.needs_field_access

\* `when x is { 1 -> 1; _ -> 1 }` over the Int subject x
WildcardWhen ==
    EWhen(<<LocalOf("x", IntT)>>,
          <<Clause(<<PInt(<<1>>)>>, Lit), Clause(<<PDiscard>>, Lit)>>, IntT)

\* C16: a when over an Int subject whose last clause is a wildcard is lowered
\* and synthesised without aborting: the last clause becomes an IR::Finally
\* node and the reduction ends with the subject lambda applied to the subject.
WildcardWhenIsCompiled ==
    (call.op = "generate" /\ call.body = WildcardWhen) =>
        /\ call.panic = ""
        /\ \E i \in 1..Len(ir_stack) : ir_stack[i].tag = "Finally"
        /\ Len(call.arg_stack) = 1
        /\ call.arg_stack[1].tag = "Apply"
        /\ call.arg_stack[1].function.tag = "Lambda"
        /\ call.arg_stack[1].function.body.tag = "Force"

\* the builtin functions that occur in the term
RECURSIVE BuiltinsOf(_)
BuiltinsOf(term) ==
    CASE term.tag = "Builtin" -> {term.func}
      [] term.tag = "Lambda" -> BuiltinsOf(term.body)
      [] term.tag = "Apply" -> BuiltinsOf(term.function) \cup BuiltinsOf(term.argument)
      [] term.tag \in {"Force", "Delay", "FinalWrapper"} -> BuiltinsOf(term.term)
      [] OTHER -> {}

\* generate was called on a when whose subject is a variable of a type other
\* than Int, ByteArray, String and List
ConstructorWhen ==
    /\ call.op = "generate"
    /\ call.body.tag = "When"
    /\ call.body.subjects[1].tag = "Var"
    /\ ~is_int(call.body.subjects[1].tipo)
    /\ ~is_bytearray(call.body.subjects[1].tipo)
    /\ ~is_string(call.body.subjects[1].tipo)
    /\ ~is_list(call.body.subjects[1].tipo)

\* the application the IR::When node was reduced to: the reduced term, or the
\* body of the binding of the constructor variable around it
WhenApplication(term) ==
    IF /\ term.tag = "Apply"
       /\ term.function.tag = "Lambda"
       /\ term.function.body.tag = "Apply"
       /\ term.function.body.function.tag = "Lambda"
    THEN term.function.body
    ELSE term

\* the term is the subject name bound to constr_index_exposer of a subject,
\* around clauses that compare by EqualsInteger only
ComparesConstructorIndex(term) ==
    /\ term.tag = "Apply"
    /\ term.function.tag = "Lambda"
    /\ \E i \in 1..Len(ir_stack) :
          /\ ir_stack[i].tag = "When"
          /\ term.function.parameter_name.text = ir_stack[i].subject_name
    /\ term.argument.tag = "Apply"
    /\ term.argument.argument.tag = "Apply"
    /\ term.argument = constr_index_exposer(term.argument.argument.argument)
    /\ "EqualsInteger" \in BuiltinsOf(term.function.body)
    /\ BuiltinsOf(term.function.body)
           \cap {"EqualsData", "EqualsByteString", "EqualsString"} = {}

\* C17: a when over a subject of a type other than Int, ByteArray, String and
\* List is reduced to the subject name bound to constr_index_exposer of the
\* subject, around clauses that compare the variable of that name with the
\* constructor index of their pattern by EqualsInteger and by no other
\* equality builtin.
ConstructorWhenComparesIndex ==
    ConstructorWhen =>
        /\ call.panic = ""
        /\ Len(call.arg_stack) = 1
        /\ ComparesConstructorIndex(WhenApplication(call.arg_stack[1]))

\* C18: generate on a construct without a lowering (Fn, If, Trace, Todo,
\* RecordUpdate, Negate, Tuple) returns to its caller without a panic and
\* without a program: the outcome is an error value, not an abort.
UnsupportedReturnsError ==
    (call.op = "generate"
        /\ \E k \in 1..Len(UnsupportedExprs) : call.body = UnsupportedExprs[k]) =>
        /\ call.panic = ""
        /\ call.program = None
        /\ phase # "aborted"

(***************************************************************************)
(* Properties of the ordering of the parsed modules.                       *)
(***************************************************************************)
\* the names of the parsed modules
Present(inputs) == {inputs[i].name : i \in 1..Len(inputs)}
\* the parsed modules the module `name` depends on
DepsOf(inputs, name) ==
    {dep \in Present(inputs) :
        \E i \in 1..Len(inputs) :
            inputs[i].name = name /\ \E k \in 1..Len(inputs[i].deps) : inputs[i].deps[k] = dep}
\* the parsed modules the modules `names` depend on through one or more imports
RECURSIVE ImportedBy(_, _, _)
ImportedBy(inputs, names, steps) ==
    LET next == UNION {DepsOf(inputs, name) : name \in names}
    IN  IF steps = 0 THEN {} ELSE next \cup ImportedBy(inputs, names \cup next, steps - 1)
\* the module lies on an import cycle
OnImportCycle(inputs, name) == name \in ImportedBy(inputs, {name}, Len(inputs))
\* no name occurs twice in the list
NoRepeats(modules) ==
    \A i, j \in 1..Len(modules) : modules[i] = modules[j] => i = j

\* C19: for parsed modules whose dependencies on each other have no cycle,
\* dependencies on absent modules being ignored, sequence returns Ok with a
\* list that holds every module name exactly once and every module after all
\* the modules it depends on.
SequenceOrdersDependenciesFirst ==
    (project.done /\ \A name \in Present(project.inputs) :
                        ~OnImportCycle(project.inputs, name)) =>
        /\ project.result.tag = "Ok"
        /\ NoRepeats(project.result.modules)
        /\ {project.result.modules[i] : i \in 1..Len(project.result.modules)}
               = Present(project.inputs)
        /\ \A i \in 1..Len(project.result.modules) :
              \A dep \in DepsOf(project.inputs, project.result.modules[i]) :
                  \E j \in 1..(i - 1) : project.result.modules[j] = dep

\* three modules were ordered of which one depends on the two others and one
\* of these on the third
ChainOfModulesOrdered ==
    /\ project.done
    /\ project.result.tag = "Ok"
    /\ Len(project.result.modules) = 3
    /\ \E name \in Present(project.inputs) :
          Cardinality(DepsOf(project.inputs, name)) = 2
    /\ \E name \in Present(project.inputs) :
          Cardinality(DepsOf(project.inputs, name)) = 1

\* two modules were ordered of which one depends on the other and on a module
\* that is not among the parsed ones
AbsentDependencyIgnored ==
    /\ project.done
    /\ project.result.tag = "Ok"
    /\ Len(project.inputs) = 2
    /\ \E i \in 1..2 :
          /\ Len(project.inputs[i].deps) = 2
          /\ Cardinality(DepsOf(project.inputs, project.inputs[i].name)) = 1

\* the name of the node the topological sort reported
OriginName == project.inputs[project.origin[1] + 1].name

\* the list is a cycle of imports: every name is imported by the next one and
\* the last name by the first
IsImportCycle(inputs, modules) ==
    /\ modules # <<>>
    /\ NoRepeats(modules)
    /\ \A i \in 1..(Len(modules) - 1) : modules[i] \in DepsOf(inputs, modules[i + 1])
    /\ modules[Len(modules)] \in DepsOf(inputs, modules[1])

\* the parsed modules have an import cycle and sequence has returned
CyclicProject ==
    /\ project.done
    /\ \E name \in Present(project.inputs) : OnImportCycle(project.inputs, name)

\* C20: for parsed modules with an import cycle sequence returns ImportCycle
\* and, when the node the topological sort reported lies on a cycle, the list
\* of modules is non-empty, has no repeated name, holds that node and is a
\* cycle of imports; a reported module whose only parsed dependency is itself
\* yields the one-element list.
ImportCycleListsCycle ==
    CyclicProject =>
        /\ project.result.tag = "ImportCycle"
        /\ OnImportCycle(project.inputs, OriginName) =>
              /\ IsImportCycle(project.inputs, project.result.modules)
              /\ \E i \in 1..Len(project.result.modules) :
                    project.result.modules[i] = OriginName
              /\ DepsOf(project.inputs, OriginName) = {OriginName}
                    => project.result.modules = <<OriginName>>

\* C20 as stated: every reported module that imports itself yields the
\* one-element list.
SelfImportListsOneModule ==
    CyclicProject =>
        /\ project.result.tag = "ImportCycle"
        /\ OnImportCycle(project.inputs, OriginName) =>
              /\ IsImportCycle(project.inputs, project.result.modules)
              /\ \E i \in 1..Len(project.result.modules) :
                    project.result.modules[i] = OriginName
              /\ OriginName \in DepsOf(project.inputs, OriginName)
                    => project.result.modules = <<OriginName>>

\* a cycle of three modules was reported from a node on it
CycleOfThreeReported ==
    /\ CyclicProject
    /\ OnImportCycle(project.inputs, OriginName)
    /\ Len(project.result.modules) = 3

(***************************************************************************)
(* Properties of the project skeleton generator.                           *)
(***************************************************************************)
\* create_project has returned and its root was there before the call
CalledOnExistingRoot ==
    disk.done /\ exists(disk.files, root_of(disk.package_name))

\* C21: create_project on a root that exists returns ProjectExists with the
\* name of the project and performs no operation on the disk: every path is
\* what it was before the call.
ExistingProjectLeftUntouched ==
    CalledOnExistingRoot =>
        /\ disk.world.err = Some([tag |-> "ProjectExists", name |-> disk.package_name.repo])
        /\ disk.world.ops = <<>>
        /\ disk.world.files = disk.files

\* create_project was refused on a project directory that holds a README.md
\* and lacks the lib folder
ExistingProjectRefused ==
    /\ CalledOnExistingRoot
    /\ disk.files[root_of(disk.package_name)] = Dir
    /\ disk.files[join(root_of(disk.package_name), "README.md")] = File(<<"old">>)
    /\ disk.files[join(root_of(disk.package_name), "lib")] = Absent
    /\ disk.world.err # None

(***************************************************************************)
(* Properties of the clauses of a when.                                    *)
(***************************************************************************)
\* the number a clause head stands for: the integer, or the constructor index
HeadOf(pattern) ==
    IF pattern.tag = "Int" THEN parse(pattern.value)
    ELSE ConstructorIndex(DatumType, pattern.name)
\* the clause whose body is to be selected for the subject v: the first clause
\* but the last whose head is v, the last clause when there is none
Selected(clauses, v) ==
    LET hits == {i \in 1..(Len(clauses) - 1) : HeadOf(clauses[i].pattern[1]) = v}
    IN  IF hits = {} THEN Len(clauses) ELSE CHOOSE i \in hits : \A j \in hits : i <= j
\* the value v as a subject of the type
SubjectValue(tipo, v) ==
    IF is_int(tipo) THEN VCon(CInteger(v)) ELSE VCon(CData(DConstr(v, <<>>)))
\* the term compares the subject with the heads of the clauses i.. in source
\* order, every comparison under one Force with both branches delayed, and
\* ends in the body of the last clause
RECURSIVE ClauseChain(_, _, _, _)
ClauseChain(term, subject_name, clauses, i) ==
    IF i = Len(clauses) THEN term = TVar(Name(BranchName(i)))
    ELSE /\ term.tag = "Force"
         /\ term.term.tag = "Apply"
         /\ term.term.argument.tag = "Delay"
         /\ term = TForce(TApply(TApply(TApply(
                       TForce(TBuiltin("IfThenElse")),
                       TApply(TApply(TBuiltin("EqualsInteger"), TVar(Name(subject_name))),
                              TConstant(CInteger(HeadOf(clauses[i].pattern[1]))))),
                       TDelay(TVar(Name(BranchName(i))))),
                       term.term.argument))
         /\ ClauseChain(term.term.argument.term, subject_name, clauses, i + 1)
\* evaluated on the subject v with the bodies of the clauses `bound`, the
\* term returns the body of clause j
Selects(term, tipo, v, bound, j) ==
    Eval(term, <<[text |-> "x", val |-> SubjectValue(tipo, v)]>>
                   \o [k \in 1..Len(bound) |->
                          [text |-> BranchName(bound[k]), val |-> VCon(CInteger(bound[k]))]])
        = VCon(CInteger(j))

\* generate was called on a when of WhenBodies
WhenOfBranches == call.op = "generate" /\ call.body \in WhenBodies

\* C22: the term synthesised for a when of k >= 2 clauses binds the subject
\* and compares it with the heads of the clauses 1..k-1 in source order, each
\* comparison being Force(IfThenElse .. (Delay body) (Delay else)); the head
\* of the last clause is not compared; for every subject the body of the
\* first clause whose head equals it is returned, the body of the last clause
\* when there is none, and no other body is evaluated.
WhenSelectsFirstMatch ==
    WhenOfBranches =>
        /\ call.panic = ""
        /\ Len(call.arg_stack) = 1
        /\ LET term == call.arg_stack[1]
               clauses == call.body.clauses
               tipo == call.body.subjects[1].tipo
           IN  /\ term.tag = "Apply"
               /\ term.function.tag = "Lambda"
               /\ term.argument = IF is_int(tipo) THEN TVar(Name("x"))
                                  ELSE constr_index_exposer(TVar(Name("x")))
               /\ ClauseChain(term.function.body, term.function.parameter_name.text,
                              clauses, 1)
               /\ \A v \in 0..MaxHead :
                     /\ Selects(term, tipo, v, <<Selected(clauses, v)>>,
                                Selected(clauses, v))
                     /\ Selects(term, tipo, v, [k \in 1..Len(clauses) |-> k],
                                Selected(clauses, v))

\* a when of three clauses was compiled whose first two heads are equal
WhenWithRepeatedHeadCompiled ==
    /\ WhenOfBranches
    /\ call.panic = ""
    /\ Len(call.body.clauses) = 3
    /\ HeadOf(call.body.clauses[1].pattern[1]) = HeadOf(call.body.clauses[2].pattern[1])
    /\ HeadOf(call.body.clauses[3].pattern[1]) # HeadOf(call.body.clauses[1].pattern[1])

(***************************************************************************)
(* Properties of the forcing of builtins.                                  *)
(***************************************************************************)
\* every builtin that occurs in the term stands under as many Force nodes
\* as its force_count; `forces` counts the Force nodes directly above
RECURSIVE ForcedByCount(_, _)
ForcedByCount(term, forces) ==
    CASE term.tag = "Builtin" -> forces = force_count(term.func)
      [] term.tag = "Force" -> ForcedByCount(term.term, forces + 1)
      [] term.tag = "Delay" -> ForcedByCount(term.term, 0)
      [] term.tag = "Lambda" -> ForcedByCount(term.body, 0)
      [] term.tag = "Apply" ->
            ForcedByCount(term.function, 0) /\ ForcedByCount(term.argument, 0)
      [] OTHER -> TRUE

\* C23: in every term the reduction of generate leaves on the argument
\* stack, each occurrence of a builtin is wrapped in exactly force_count()
\* Force nodes.
BuiltinsForcedByCount ==
    (call.op = "generate" /\ call.panic = "") =>
        \A k \in 1..Len(call.arg_stack) : ForcedByCount(call.arg_stack[k], 0)

(***************************************************************************)
(* Properties of the equality of Bools.                                    *)
(***************************************************************************)
\* C24: the term emitted for Eq on two Bool operands is
\* Force(IfThenElse left (Delay(IfThenElse right True False))
\* (Delay(IfThenElse right False True))) and, for each of the four
\* combinations of values of its operands, evaluates to True exactly when
\* the two values are equal.
BoolEqComputesEquality ==
    (call.op = "generate" /\ call.body = BoolEq) =>
        /\ call.panic = ""
        /\ Len(call.arg_stack) = 1
        /\ call.arg_stack[1] = bool_eq(TVar(Name("l")), TVar(Name("r")))
        /\ \A l, r \in BOOLEAN :
              Eval(call.arg_stack[1],
                   <<[text |-> "l", val |-> VCon(CBool(l))],
                     [text |-> "r", val |-> VCon(CBool(r))]>>)
                  = VCon(CBool(l = r))

\* the equality of two Bool variables was compiled into a program
BoolEqCompiled ==
    /\ call.op = "generate"
    /\ call.body = BoolEq
    /\ call.program # None

(***************************************************************************)
(* Properties of the scopes build_ir lowers under.                         *)
(***************************************************************************)
\* the child sub-expressions of an expression
Children(body) ==
    CASE body.tag \in {"Sequence", "Pipeline"} ->
            {body.expressions[i] : i \in 1..Len(body.expressions)}
      [] body.tag = "List" ->
            {body.elements[i] : i \in 1..Len(body.elements)}
                \cup {body.tail[i] : i \in 1..Len(body.tail)}
      [] body.tag = "Call" ->
            {body.fun} \cup {body.args[i].value : i \in 1..Len(body.args)}
      [] body.tag = "BinOp" -> {body.left, body.right}
      [] body.tag = "Assignment" -> {body.value}
      [] body.tag = "When" ->
            {body.subjects[1]} \cup {body.clauses[i].then : i \in 1..Len(body.clauses)}
      [] body.tag = "RecordAccess" -> {body.record}
      [] OTHER -> {}
\* the IR nodes a child that is a local variable was lowered to
NodesOf(stack, child) ==
    {i \in 1..Len(stack) :
        /\ stack[i].tag = "Var"
        /\ stack[i].constructor.variant.tag = "LocalVariable"
        /\ stack[i].name = child.name}

\* C25: generate lowers its body under a scope of one id, and every child of
\* the body that is a local variable is lowered under that scope extended by
\* one id.
ChildScopeExtendsParent ==
    call.op = "generate" =>
        \A child \in {c \in Children(call.body) :
                         c.tag = "Var" /\ c.constructor.variant.tag = "LocalVariable"} :
            \A i \in NodesOf(ir_stack, child) : Len(ir_stack[i].scope) = 2

(***************************************************************************)
(* Properties of list literals.                                            *)
(***************************************************************************)
\* the term of a literal or of a local variable
LeafTerm(expr) ==
    IF expr.tag = "Int" THEN TConstant(CInteger(parse(expr.value)))
    ELSE TVar(Name(expr.name))
\* MkCons of the elements from the i-th on onto the term
RECURSIVE ConsedOnto(_, _, _)
ConsedOnto(elements, i, term) ==
    IF i > Len(elements) THEN term
    ELSE TApply(TApply(TForce(TBuiltin("MkCons")), LeafTerm(elements[i])),
                ConsedOnto(elements, i + 1, term))

\* C26: generate on a list literal with a tail completes and leaves one
\* term: the chain of MkCons that conses the elements, the first outermost,
\* onto the term of the tail.
ListWithTailIsConsed ==
    (call.op = "generate" /\ call.body.tag = "List" /\ call.body.tail # None) =>
        /\ call.panic = ""
        /\ call.arg_stack
               = <<ConsedOnto(call.body.elements, 1, LeafTerm(call.body.tail[1]))>>

(***************************************************************************)
(* Properties of list patterns with a discarded tail.                      *)
(***************************************************************************)
\* C27: for a list pattern of k named elements and a discarded tail, the
\* term of the ListAccessor binds every name to the list element at its own
\* position; no name is bound to a tail of the list.
DiscardTailBindsElements ==
    (synth.done /\ synth.kind = "discard tail") =>
        /\ synth.panic = ""
        /\ synth.result = VCon(ListItems(synth.len)[synth.probe + 1])

\* the constant an element of a list literal stands for when x is 5
ElementConstant(expr) ==
    IF expr.tag = "Int" THEN CInteger(parse(expr.value)) ELSE CInteger(5)

\* C28: the term generate leaves for a list literal without a tail denotes
\* the list whose i-th element is the i-th source element, on the constant
\* path and on the MkCons path alike.
ListKeepsSourceOrder ==
    (call.op = "generate" /\ call.body.tag = "List" /\ call.body.tail = None) =>
        /\ call.panic = ""
        /\ Len(call.arg_stack) = 1
        /\ Eval(call.arg_stack[1], <<[text |-> "x", val |-> VCon(CInteger(5))]>>)
               = VCon(CProtoList("Integer",
                                 [i \in 1..Len(call.body.elements) |->
                                     ElementConstant(call.body.elements[i])]))

\* C30: define_ir returns, with a result or a panic of its own, on every IR
\* sequence and function table: the nested calls on dependency bodies never
\* nest beyond every finite depth, also when a function refers to itself more
\* than once or two functions refer to each other.
DefineIrTerminates ==
    call.op = "define_ir" => call.panic # "stack overflow"


\* the IR sequence define_ir was run on and the generator it was run by:
\* lines 67-70 of generate on the body of the call
LoweredBody ==
    build_ir(IdAdvance(NewCodeGenerator), call.body, <<>>,
             <<IdNext(NewCodeGenerator)>>)

\* func_index_map as the reverse walk over that sequence leaves it
RecordedIndices ==
    Let(LoweredBody,
        LAMBDA built :
            define_ir_walk(Walk(built.self, <<>>, <<>>, <<>>, ""), built.ir_stack,
                           Len(built.ir_stack)).func_index_map)

\* the node is the DefineFunc inserted for the entry of func_index_map
IsDefineFuncOf(node, entry) ==
    /\ node.tag = "DefineFunc"
    /\ FunctionAccessKey(node.module_name, node.func_name) = entry.key
    /\ node.scope = entry.value.scope

\* the nodes of `hoisted` from position np on are the nodes of `lowered` from
\* position op on with nodes inserted between them, and the first node of
\* `lowered` after each DefineFunc inserted for an entry of `recorded` is the
\* one at the index of that entry
RECURSIVE InsertedBeforeRecorded(_, _, _, _, _)
InsertedBeforeRecorded(hoisted, lowered, recorded, np, op) ==
    IF np > Len(hoisted) THEN op = Len(lowered) + 1
    ELSE \/ /\ op <= Len(lowered)
            /\ hoisted[np] = lowered[op]
            /\ InsertedBeforeRecorded(hoisted, lowered, recorded, np + 1, op + 1)
         \/ /\ \A n \in 1..Len(recorded) :
                  IsDefineFuncOf(hoisted[np], recorded[n])
                      => recorded[n].value.index + 1 = op
            /\ InsertedBeforeRecorded(hoisted, lowered, recorded, np + 1, op)

\* C29: after define_ir has inserted the DefineFunc nodes of the functions it
\* placed, each of them stands before the node that stood at its recorded
\* index during the reverse walk, with nothing but inserted nodes between the
\* two, whatever the order of placing and whatever was inserted for others.
DefineFuncBeforeRecordedNode ==
    (phase = "hoisted" /\ call.op = "define_ir") =>
        InsertedBeforeRecorded(ir_stack, LoweredBody.ir_stack, RecordedIndices, 1, 1)

====
